---- MODULE Spec2Model ----
(***************************************************************************)
(* Model of the QuizHive question generator                                *)
(* (model_server/ai_question_generator.py, model_server/template_generator *)
(* .py).  Strings are sequences of words; a word is a TLA+ string.  Where  *)
(* the code looks inside a word (lower(), substring search, regular        *)
(* expressions) the text is a sequence of one-character strings.           *)
(***************************************************************************)
EXTENDS Integers, Sequences, FiniteSets, TLC

VARIABLES
    pc,                        \* position of the AIQuestionGenerator instance / its caller
    TRANSFORMERS_AVAILABLE,    \* module flag set by the import at lines 10-20
    attrs,                     \* names of the attributes the instance has
    models_loaded,
    ssl_i,                     \* loop index of _initialize_ai_models
    question_id_counter,
    universal_concepts,
    topic_concept_generators,
    request,                   \* the QuestionRequest of the call in progress
    concepts,                  \* local list of generate_questions
    concepts_alias,            \* which stored list the local list is (in-place shuffle)
    questions,                 \* local list of generate_questions
    outcome,                   \* what the last finished call returned or raised
    issued,                    \* ids of the questions returned by earlier calls
    calls,                     \* number of calls started
    rng,                       \* state of the random module's generator
    arg,                       \* input of the function under check / the HTTP request
    ret,                       \* its result / the HTTP response
    generator_ready            \* app.py: the module global set by lifespan

vars == <<pc, TRANSFORMERS_AVAILABLE, attrs, models_loaded, ssl_i, question_id_counter,
          universal_concepts, topic_concept_generators, request, concepts, concepts_alias,
          questions, outcome, issued, calls, rng, arg, ret,
                   generator_ready>>

genvars == <<pc, TRANSFORMERS_AVAILABLE, attrs, models_loaded, ssl_i, question_id_counter,
             universal_concepts, topic_concept_generators, request, concepts,
             concepts_alias, questions, outcome, issued, calls, rng, generator_ready>>

-----------------------------------------------------------------------------
(* Bounds *)

MaxQuestions == 2      \* largest num_questions of a call in Spec
MaxCalls == 2          \* calls made on one instance in Spec
MaxSeed == 2           \* initial states of the random generator tried in Spec
MaxTotal == 50         \* largest total_questions in SpecCoreType
MaxBatch == 50         \* largest num_questions in SpecBatch

-----------------------------------------------------------------------------
(* Python values *)

None == "None"
Levels == {"beginner", "intermediate", "advanced"}
CoreTypes == {"baseline", "variable"}

Range(s) == {s[i] : i \in DOMAIN s}

RECURSIVE Pow2(_)
Pow2(n) == IF n = 0 THEN 1 ELSE 2 * Pow2(n - 1)

RECURSIVE BitLen(_)
BitLen(n) == IF n = 0 THEN 0 ELSE 1 + BitLen(n \div 2)

RECURSIVE Fact(_)
Fact(n) == IF n <= 1 THEN 1 ELSE n * Fact(n - 1)

-----------------------------------------------------------------------------
(* float arithmetic of _determine_core_type: total_questions * baseline_ratio *)
(* is an IEEE-754 double product, int() truncates it.  A double is            *)
(* sig * 2^-sh with a 53-bit significand kept in three limbs of 20 bits,      *)
(* least significant first.                                                   *)

Limb == Pow2(20)

\* the doubles nearest to the literals 0.6, 0.5 and 0.4
Double06 == [sig |-> <<209715, 209715, 4915>>, sh |-> 53]
Double05 == [sig |-> <<0, 0, 4096>>, sh |-> 53]
Double04 == [sig |-> <<629146, 629145, 6553>>, sh |-> 54]

\* carry propagation of a three-limb number
Carry(p) ==
    LET c0 == p[1] \div Limb
        q1 == p[2] + c0
        c1 == q1 \div Limb
    IN  <<p[1] % Limb, q1 % Limb, p[3] + c1>>

\* exact product of a small integer and a significand
MulExact(n, sig) == Carry(<<n * sig[1], n * sig[2], n * sig[3]>>)

\* the product cut to 53 significant bits (round towards zero)
RoundTruncate(p) ==
    LET s == (40 + BitLen(p[3])) - 53
    IN  IF s <= 0 THEN p ELSE <<p[1] - (p[1] % Pow2(s)), p[2], p[3]>>

\* the product rounded to 53 significant bits, half to even (IEEE-754 default)
RoundNearestEven(p) ==
    LET s == (40 + BitLen(p[3])) - 53
    IN  IF s <= 0 THEN p
        ELSE LET unit == Pow2(s)
                 rem == p[1] % unit
                 odd == (p[1] \div unit) % 2 = 1
                 up == (2 * rem > unit) \/ (2 * rem = unit /\ odd)
             IN  Carry(<<(p[1] - rem) + (IF up THEN unit ELSE 0), p[2], p[3]>>)

\* int(n * d) for n >= 0
IntOfProduct(n, d) == RoundNearestEven(MulExact(n, d.sig))[3] \div Pow2(d.sh - 40)

-----------------------------------------------------------------------------
(* AIQuestionGenerator.core_distribution and _determine_core_type *)

core_distribution ==
    [l \in Levels |->
        CASE l = "beginner" -> [baseline |-> Double06, variable |-> Double04]
          [] l = "intermediate" -> [baseline |-> Double05, variable |-> Double05]
          [] l = "advanced" -> [baseline |-> Double04, variable |-> Double06]]

\* _determine_core_type with the product rounded to the nearest integer instead of int()
determine_core_type_rounded(level, index, total_questions) ==
    LET distribution == IF level \in DOMAIN core_distribution
                        THEN core_distribution[level]
                        ELSE [baseline |-> Double06, variable |-> Double04]
        baseline_count == (IntOfProduct(2 * total_questions, distribution.baseline) + 1)
                          \div 2
    IN  IF index < baseline_count THEN "baseline" ELSE "variable"

determine_core_type(level, index, total_questions) ==
    LET distribution == IF level \in DOMAIN core_distribution
                        THEN core_distribution[level]
                        ELSE [baseline |-> Double06, variable |-> Double04]
        baseline_ratio == distribution.baseline
        baseline_count == IntOfProduct(total_questions, baseline_ratio)
    IN  IF index < baseline_count THEN "baseline" ELSE "variable"

-----------------------------------------------------------------------------
(* str.format / f-strings: a template is a sequence of words in which the    *)
(* words "{concept}" and "{topic}" are replaced by the words of the value.   *)

RECURSIVE Format(_, _, _)
Format(template, concept, topic) ==
    IF template = <<>> THEN <<>>
    ELSE (CASE Head(template) = "{concept}" -> concept
            [] Head(template) = "{topic}" -> topic
            [] OTHER -> <<Head(template)>>)
         \o Format(Tail(template), concept, topic)

-----------------------------------------------------------------------------
(* random: the module-level generator is a deterministic stream out of a      *)
(* hidden state.  Each call of random.shuffle or random.choice is decided by  *)
(* the state it finds (`seed`) and advances the state.  random.shuffle is     *)
(* Fisher-Yates, for i = n-1 .. 1: j = randbelow(i+1), swap x[i], x[j]; the   *)
(* draw for index i is digit i of seed written in the factorial number        *)
(* system, so seeds 0 .. n!-1 give the n! permutations of n elements.         *)

\* the outcomes of a shuffle of four elements
ShuffleOutcomes == 0..(Fact(4) - 1)

\* the state after one call: a full-period generator over ShuffleOutcomes
Advance(r) == (13 * r + 7) % Fact(4)

RECURSIVE Quot(_, _)
Quot(seed, i) == IF i <= 1 THEN seed ELSE Quot(seed, i - 1) \div i

randbelow(seed, i) == Quot(seed, i) % (i + 1)

Swap(x, a, b) == [x EXCEPT ![a] = x[b], ![b] = x[a]]

RECURSIVE ShuffleFrom(_, _, _)
ShuffleFrom(x, seed, i) ==
    IF i < 1 THEN x
    ELSE ShuffleFrom(Swap(x, i + 1, randbelow(seed, i) + 1), seed, i - 1)

shuffle(x, seed) == ShuffleFrom(x, seed, Len(x) - 1)

\* random.choice(seq) under outcome seed
choice(seq, seed) == seq[(seed % Len(seq)) + 1]

-----------------------------------------------------------------------------
(* dict: keys in insertion order and the value of each key *)

EmptyDict == [keys |-> <<>>, val |-> <<>>]

DictSet(d, k, v) ==
    [keys |-> IF k \in Range(d.keys) THEN d.keys ELSE Append(d.keys, k),
     val |-> (k :> v) @@ d.val]

chr65 == <<"A", "B", "C", "D", "E", "F", "G", "H">>

-----------------------------------------------------------------------------
(* AIQuestionGenerator._initialize_fallback_system *)

InitialUniversalConcepts ==
    [l \in Levels |->
        CASE l = "beginner" ->
                <<<<"basic", "concepts">>, <<"fundamentals">>, <<"introduction">>,
                  <<"getting", "started">>, <<"syntax">>, <<"variables">>,
                  <<"data", "types">>, <<"operators">>, <<"control", "flow">>>>
          [] l = "intermediate" ->
                <<<<"functions">>, <<"methods">>, <<"classes">>, <<"objects">>,
                  <<"modules">>, <<"packages">>, <<"error", "handling">>,
                  <<"file", "operations">>, <<"algorithms">>, <<"data", "structures">>>>
          [] l = "advanced" ->
                <<<<"optimization">>, <<"performance">>, <<"architecture">>,
                  <<"design", "patterns">>, <<"advanced", "techniques">>,
                  <<"best", "practices">>, <<"scalability">>, <<"security">>>>]

\* the keys of topic_concept_generators with python inserted first
TopicKeys_python_first == <<"python", "programming", "javascript">>

\* the keys of topic_concept_generators in insertion order
TopicKeys == <<"programming", "python", "javascript">>

InitialTopicConceptGenerators ==
    [k \in Range(TopicKeys) |-> [l \in Levels |->
        CASE k = "programming" /\ l = "beginner" ->
                <<<<"variables">>, <<"loops">>, <<"functions">>, <<"conditionals">>,
                  <<"arrays">>, <<"strings">>>>
          [] k = "programming" /\ l = "intermediate" ->
                <<<<"classes">>, <<"inheritance">>, <<"polymorphism">>,
                  <<"encapsulation">>, <<"recursion">>>>
          [] k = "programming" /\ l = "advanced" ->
                <<<<"design", "patterns">>, <<"memory", "management">>,
                  <<"concurrency">>, <<"performance", "optimization">>>>
          [] k = "python" /\ l = "beginner" ->
                <<<<"lists">>, <<"dictionaries">>, <<"functions">>, <<"loops">>,
                  <<"conditionals">>, <<"strings">>>>
          [] k = "python" /\ l = "intermediate" ->
                <<<<"classes">>, <<"decorators">>, <<"generators">>,
                  <<"context", "managers">>, <<"modules">>>>
          [] k = "python" /\ l = "advanced" ->
                <<<<"metaclasses">>, <<"async", "programming">>,
                  <<"memory", "management">>, <<"C", "extensions">>>>
          [] k = "javascript" /\ l = "beginner" ->
                <<<<"variables">>, <<"functions">>, <<"arrays">>, <<"objects">>,
                  <<"DOM", "manipulation">>>>
          [] k = "javascript" /\ l = "intermediate" ->
                <<<<"closures">>, <<"promises">>, <<"async/await">>, <<"prototypes">>,
                  <<"modules">>>>
          [] k = "javascript" /\ l = "advanced" ->
                <<<<"event", "loop">>, <<"performance", "optimization">>,
                  <<"design", "patterns">>, <<"frameworks">>>>]]

question_templates ==
    [c \in CoreTypes |->
        IF c = "baseline"
        THEN << <<"What", "is", "the", "purpose", "of", "{concept}", "in", "{topic}", "?">>,
                <<"How", "do", "you", "use", "{concept}", "in", "{topic}", "programming", "?">>,
                <<"Which", "statement", "best", "describes", "{concept}", "in", "{topic}", "?">>,
                <<"What", "are", "the", "benefits", "of", "using", "{concept}", "in",
                  "{topic}", "?">>,
                <<"When", "would", "you", "implement", "{concept}", "in", "{topic}", "?">> >>
        ELSE << <<"How", "would", "you", "solve", "a", "problem", "using", "{concept}", "in",
                  "{topic}", "?">>,
                <<"What", "is", "the", "best", "approach", "for", "implementing", "{concept}",
                  "in", "{topic}", "?">>,
                <<"Which", "method", "would", "you", "choose", "for", "{concept}", "in",
                  "{topic}", "and", "why", "?">>,
                <<"How", "do", "you", "optimize", "{concept}", "usage", "in", "{topic}",
                  "applications", "?">>,
                <<"What", "are", "the", "trade-offs", "when", "using", "{concept}", "in",
                  "{topic}", "?">> >>]

-----------------------------------------------------------------------------
(* AIQuestionGenerator._create_options_dict and its two callers *)

RECURSIVE LabelOptions(_, _)
\* for i, option_text in enumerate(all_options[:4]): options[chr(65 + i)] = option_text
LabelOptions(texts, i) ==
    IF i = 0 THEN EmptyDict
    ELSE DictSet(LabelOptions(texts, i - 1), chr65[i], texts[i])

RECURSIVE FindLetter(_, _, _)
\* the first letter, in the dict's order, whose text is correct_text; None when there is none
FindLetter(options, correct_text, i) ==
    IF i > Len(options.keys) THEN None
    ELSE IF options.val[options.keys[i]] = correct_text THEN options.keys[i]
    ELSE FindLetter(options, correct_text, i + 1)

create_options_dict_first_label(correct_text, incorrect_options, concept, topic, level, seed) ==
    LET all_options == shuffle(<<correct_text>> \o incorrect_options, seed)
        options == LabelOptions(all_options, IF Len(all_options) < 4 THEN Len(all_options) ELSE 4)
    IN  [question |-> Format(<<"What", "is", "the", "most", "accurate", "description", "of",
                               "{concept}", "in", "{topic}", "?">>, concept, topic),
         options |-> options,
         correct |-> options.keys[1],
         explanation |-> Format(<<"The", "correct", "answer", "demonstrates", "proper",
                                  "understanding", "of", "{concept}", "in", "{topic}", "at">>,
                                concept, topic) \o <<level, "level", ".">>]

create_options_dict_three(correct_text, incorrect_options, concept, topic, level, seed) ==
    LET all_options == shuffle(<<correct_text>> \o incorrect_options, seed)
        options == LabelOptions(all_options, 3)
        found == FindLetter(options, correct_text, 1)
    IN  [question |-> Format(<<"What", "is", "the", "most", "accurate", "description", "of",
                               "{concept}", "in", "{topic}", "?">>, concept, topic),
         options |-> options,
         correct |-> IF found = None THEN "D" ELSE found,
         explanation |-> Format(<<"The", "correct", "answer", "demonstrates", "proper",
                                  "understanding", "of", "{concept}", "in", "{topic}", "at">>,
                                concept, topic) \o <<level, "level", ".">>]

create_options_dict(correct_text, incorrect_options, concept, topic, level, seed) ==
    LET all_options == shuffle(<<correct_text>> \o incorrect_options, seed)
        options == LabelOptions(all_options, IF Len(all_options) < 4 THEN Len(all_options) ELSE 4)
        found == FindLetter(options, correct_text, 1)
        correct_letter == IF found = None THEN options.keys[1] ELSE found
    IN  [question |-> Format(<<"What", "is", "the", "most", "accurate", "description", "of",
                               "{concept}", "in", "{topic}", "?">>, concept, topic),
         options |-> options,
         correct |-> correct_letter,
         explanation |-> Format(<<"The", "correct", "answer", "demonstrates", "proper",
                                  "understanding", "of", "{concept}", "in", "{topic}", "at">>,
                                concept, topic) \o <<level, "level", ".">>]

BaselineCorrectText(topic, concept) ==
    Format(<<"A", "fundamental", "{concept}", "concept", "in", "{topic}", "that", "provides",
             "essential", "functionality">>, concept, topic)

BaselineIncorrectOptions(topic, concept) ==
    << Format(<<"An", "advanced", "{concept}", "technique", "only", "used", "in", "complex",
                "{topic}", "applications">>, concept, topic),
       Format(<<"A", "deprecated", "{concept}", "method", "that", "should", "no", "longer",
                "be", "used", "in", "{topic}">>, concept, topic),
       Format(<<"An", "external", "{concept}", "library", "not", "part", "of", "core",
                "{topic}">>, concept, topic) >>

VariableCorrectText(topic, concept) ==
    Format(<<"An", "advanced", "application", "of", "{concept}", "that", "solves", "complex",
             "{topic}", "problems", "efficiently">>, concept, topic)

VariableIncorrectOptions(topic, concept) ==
    << Format(<<"A", "basic", "{concept}", "implementation", "that", "only", "handles",
                "simple", "{topic}", "cases">>, concept, topic),
       Format(<<"A", "{concept}", "workaround", "that", "provides", "temporary", "{topic}",
                "functionality">>, concept, topic),
       Format(<<"A", "theoretical", "{concept}", "approach", "with", "no", "practical",
                "{topic}", "applications">>, concept, topic) >>

generate_baseline_options(topic, concept, level, seed) ==
    create_options_dict(BaselineCorrectText(topic, concept),
                        BaselineIncorrectOptions(topic, concept), concept, topic, level, seed)

generate_variable_options(topic, concept, level, seed) ==
    create_options_dict(VariableCorrectText(topic, concept),
                        VariableIncorrectOptions(topic, concept), concept, topic, level, seed)

-----------------------------------------------------------------------------
(* Characters.  Chars(w) spells a word; the text of a word sequence joins the *)
(* words with single spaces.                                                  *)

UpperLetters == <<"A", "B", "C", "D", "E", "F", "G", "H", "I", "J", "K", "L", "M",
                  "N", "O", "P", "Q", "R", "S", "T", "U", "V", "W", "X", "Y", "Z">>
LowerLetters == <<"a", "b", "c", "d", "e", "f", "g", "h", "i", "j", "k", "l", "m",
                  "n", "o", "p", "q", "r", "s", "t", "u", "v", "w", "x", "y", "z">>

LowerChar(c) ==
    IF \E i \in DOMAIN UpperLetters : UpperLetters[i] = c
    THEN LowerLetters[CHOOSE i \in DOMAIN UpperLetters : UpperLetters[i] = c]
    ELSE c

UpperChar(c) ==
    IF \E i \in DOMAIN LowerLetters : LowerLetters[i] = c
    THEN UpperLetters[CHOOSE i \in DOMAIN LowerLetters : LowerLetters[i] = c]
    ELSE c

\* str.lower() and str.upper() on a sequence of characters
lower(t) == [i \in DOMAIN t |-> LowerChar(t[i])]
upper(t) == [i \in DOMAIN t |-> UpperChar(t[i])]

Chars(w) ==
    CASE w = "Python" -> <<"P", "y", "t", "h", "o", "n">>
      [] w = "python" -> <<"p", "y", "t", "h", "o", "n">>
      [] w = "programming" -> <<"p", "r", "o", "g", "r", "a", "m", "m", "i", "n", "g">>
      [] w = "javascript" -> <<"j", "a", "v", "a", "s", "c", "r", "i", "p", "t">>
      [] w = "Java" -> <<"J", "a", "v", "a">>
      [] w = "Rust" -> <<"R", "u", "s", "t">>
      [] w = "AWS" -> <<"A", "W", "S">>
      [] w = "aws" -> <<"a", "w", "s">>
      [] w = "Docker" -> <<"D", "o", "c", "k", "e", "r">>
      [] w = "PYTHON" -> <<"P", "Y", "T", "H", "O", "N">>
      [] w = "DOCKER" -> <<"D", "O", "C", "K", "E", "R">>
      [] w = "gram" -> <<"g", "r", "a", "m">>
      [] w = "on" -> <<"o", "n">>

RECURSIVE TextOf(_)
TextOf(words) ==
    IF words = <<>> THEN <<>>
    ELSE IF Len(words) = 1 THEN Chars(words[1])
    ELSE Chars(words[1]) \o <<" ">> \o TextOf(Tail(words))

\* Python's `a in b` on strings
IsSubstring(a, b) ==
    \E i \in 0..(Len(b) - Len(a)) : SubSeq(b, i + 1, i + Len(a)) = a

StartsWithAt(t, p, lit) ==
    /\ p + Len(lit) - 1 <= Len(t)
    /\ SubSeq(t, p, p + Len(lit) - 1) = lit

-----------------------------------------------------------------------------
(* AIQuestionGenerator._get_concepts_for_topic.  The result is one of the     *)
(* stored lists itself (no copy): a reference names which.                    *)

RECURSIVE MatchKey(_, _)
\* index of the first key with `key in topic_lower or topic_lower in key`, 0 when none
MatchKey(topic_lower, i) ==
    IF i > Len(TopicKeys) THEN 0
    ELSE IF IsSubstring(Chars(TopicKeys[i]), topic_lower)
            \/ IsSubstring(topic_lower, Chars(TopicKeys[i]))
         THEN i
         ELSE MatchKey(topic_lower, i + 1)

UniversalRef(level) == [table |-> "universal_concepts", key |-> None, level |-> level]

get_concepts_ref(topic, level) ==
    LET topic_lower == lower(TextOf(topic))
        k == MatchKey(topic_lower, 1)
    IN  IF k = 0 THEN UniversalRef(level)
        ELSE [table |-> "topic_concept_generators", key |-> TopicKeys[k], level |-> level]

Deref(r, universal, generators) ==
    IF r.table = "universal_concepts" THEN universal[r.level]
    ELSE generators[r.key][r.level]

-----------------------------------------------------------------------------
(* AIQuestionGenerator._parse_ai_generated_question: the three regular        *)
(* expressions, on sequences of characters (positions count from 1).          *)

AD == {"A", "B", "C", "D"}
Separators == {")", "."}
Whitespace == {" ", "\n"}

RECURSIVE LStrip(_)
LStrip(t) == IF t # <<>> /\ Head(t) \in Whitespace THEN LStrip(Tail(t)) ELSE t

RECURSIVE RStrip(_)
RStrip(t) ==
    IF t # <<>> /\ t[Len(t)] \in Whitespace THEN RStrip(SubSeq(t, 1, Len(t) - 1)) ELSE t

strip(t) == RStrip(LStrip(t))

\* [A-D][\).] at position p
IsMarker(t, p) == p >= 1 /\ p + 1 <= Len(t) /\ t[p] \in AD /\ t[p + 1] \in Separators

\* \s*[A-D][\).] at position k
WsThenMarker(t, k) ==
    \E m \in k..Len(t) : IsMarker(t, m) /\ \A j \in k..(m - 1) : t[j] \in Whitespace

\* re.search(r'(.+?)\s*[A-D][\).]', text, re.DOTALL): the position after group 1,
\* 0 when there is no match
QuestionEnd(t) ==
    LET ks == {k \in 2..Len(t) : WsThenMarker(t, k)}
    IN  IF ks = {} THEN 0 ELSE CHOOSE k \in ks : \A k2 \in ks : k <= k2

RECURSIVE SkipWs(_, _)
SkipWs(t, p) == IF p <= Len(t) /\ t[p] \in Whitespace THEN SkipWs(t, p + 1) ELSE p

RECURSIVE NextAD(_, _)
\* the first position >= p holding one of A-D, Len(t)+1 when there is none
NextAD(t, p) == IF p <= Len(t) /\ t[p] \notin AD THEN NextAD(t, p + 1) ELSE p

\* ([A-D])[\).]\s*([^A-D]+?)(?=[A-D][\).]|$) tried at position p: the positions where
\* group 2 starts and where the match ends, <<0, 0>> when it does not match at p
OptionMatchAt(t, p) ==
    IF ~IsMarker(t, p) THEN <<0, 0>>
    ELSE LET b0 == p + 2
             wmax == SkipWs(t, b0) - b0
             q == NextAD(t, b0)
             cands == (IF q <= Len(t) /\ IsMarker(t, q) THEN {q} ELSE {})
                      \cup (IF q = Len(t) + 1 THEN {Len(t) + 1} ELSE {})
                      \cup (IF q = Len(t) + 1 /\ t[Len(t)] = "\n" THEN {Len(t)} ELSE {})
             ok == {c \in cands : c >= b0 + 1}
         IN  IF ok = {} THEN <<0, 0>>
             ELSE LET emax == CHOOSE c \in ok : \A c2 \in ok : c >= c2
                      w == IF wmax < emax - b0 - 1 THEN wmax ELSE emax - b0 - 1
                      es == {c \in ok : c >= b0 + w + 1}
                  IN  <<b0 + w, CHOOSE c \in es : \A c2 \in es : c <= c2>>

RECURSIVE FindAllOptions(_, _)
\* re.findall(option_pattern, generated_text, re.DOTALL) scanning from position p
FindAllOptions(t, p) ==
    IF p > Len(t) THEN <<>>
    ELSE LET m == OptionMatchAt(t, p)
         IN  IF m = <<0, 0>> THEN FindAllOptions(t, p + 1)
             ELSE <<<<t[p], SubSeq(t, m[1], m[2] - 1)>>>> \o FindAllOptions(t, m[2])

RECURSIVE OptionsOf(_, _)
\* for letter, text in option_matches: options[letter] = text.strip()
OptionsOf(matches, i) ==
    IF i = 0 THEN EmptyDict
    ELSE DictSet(OptionsOf(matches, i - 1), matches[i][1], strip(matches[i][2]))

LitCorrectAnswer == <<"c", "o", "r", "r", "e", "c", "t", " ", "a", "n", "s", "w", "e", "r">>
LitAnswer == <<"a", "n", "s", "w", "e", "r">>
LitCorrect == <<"c", "o", "r", "r", "e", "c", "t">>

\* `lit` then :? then \s* then ([A-D]) at position s: the letter, None when no match
AfterPhrase(lt, s, lit, colon) ==
    IF ~StartsWithAt(lt, s, lit) THEN None
    ELSE LET a == s + Len(lit)
             b == IF colon /\ a <= Len(lt) /\ lt[a] = ":" THEN a + 1 ELSE a
             c == IF colon THEN SkipWs(lt, b) ELSE b
         IN  IF c <= Len(lt) /\ lt[c] \in AD THEN lt[c] ELSE None

\* (?:correct answer|answer:?\s*|correct:?\s*)([A-D]) tried at position s
CorrectMatchAt(lt, s) ==
    LET a1 == AfterPhrase(lt, s, LitCorrectAnswer, FALSE)
        a2 == AfterPhrase(lt, s, LitAnswer, TRUE)
        a3 == AfterPhrase(lt, s, LitCorrect, TRUE)
    IN  IF a1 # None THEN a1 ELSE IF a2 # None THEN a2 ELSE a3

RECURSIVE CorrectSearch(_, _)
\* re.search(correct_pattern, lt) from position s: group 1, None when there is no match
CorrectSearch(lt, s) ==
    IF s > Len(lt) THEN None
    ELSE IF CorrectMatchAt(lt, s) # None THEN CorrectMatchAt(lt, s)
    ELSE CorrectSearch(lt, s + 1)

\* the names bound where line 379 builds its f-string: the parameters and locals of
\* _parse_ai_generated_question (the module binds none of the names the f-string reads)
ParserScope == {"self", "generated_text", "question_match", "question", "options",
                "correct_answer", "option_pattern", "option_matches", "letter", "text",
                "correct_pattern", "correct_match"}

\* the names the f-string of line 379 reads
ExplanationPromptNames == {"correct_answer", "concept", "topic", "level"}

\* what the explanation call of the backend does: it raises, or returns a text
BackendRaises == [raises |-> TRUE, text |-> <<>>]
BackendReturns(t) == [raises |-> FALSE, text |-> t]

\* the parser's `return None`
Unparsable == [parsed |-> FALSE]

\* an exception that leaves a call
Raised(exc) == [raises |-> exc]
IsRaised(r) == "raises" \in DOMAIN r

\* _parse_ai_generated_question without the handler of lines 394-396
ParseWith_no_handler(generated_text, explain, scope, searched) ==
    LET k == QuestionEnd(generated_text)
        option_matches == FindAllOptions(generated_text, 1)
        options == OptionsOf(option_matches, Len(option_matches))
    IN  IF k = 0 THEN Unparsable
        ELSE IF Len(options.keys) < 2 THEN Unparsable
        ELSE [parsed |-> FALSE, raises |-> "NameError"]

\* _parse_ai_generated_question, lines 344-396, for the names `scope` binds at line 379
\* and the text `searched` that line 367 searches
ParseWith(generated_text, explain, scope, searched) ==
    LET k == QuestionEnd(generated_text)
        question == strip(SubSeq(generated_text, 1, k - 1))
        option_matches == FindAllOptions(generated_text, 1)
        options == OptionsOf(option_matches, Len(option_matches))
        correct_match == CorrectSearch(searched, 1)
        correct_answer == IF correct_match # None THEN UpperChar(correct_match)
                          ELSE IF Len(options.keys) >= 1 THEN options.keys[1]
                          ELSE None
    IN  IF k = 0 THEN Unparsable
        ELSE IF Len(options.keys) < 2 THEN Unparsable
        ELSE IF ~(ExplanationPromptNames \subseteq scope) THEN Unparsable \* NameError, line 394
        ELSE IF explain.raises THEN Unparsable                            \* line 394
        ELSE [parsed |-> TRUE, question |-> question, options |-> options,
              correct |-> correct_answer, explanation |-> strip(explain.text)]

parse_ai_generated_question(generated_text, explain) ==
    ParseWith(generated_text, explain, ParserScope, lower(generated_text))

-----------------------------------------------------------------------------
(* AIQuestionGenerator: question generation *)

\* _generate_fallback_question without the wrap-around of the index
generate_fallback_question_no_wrap(req, core_type, cs, index, r) ==
    IF index >= Len(cs) THEN Raised("IndexError")
    ELSE LET concept == cs[index + 1]
         IN  [data |-> IF core_type = "baseline"
                       THEN generate_baseline_options(req.topic, concept, req.level,
                                                      Advance(r))
                       ELSE generate_variable_options(req.topic, concept, req.level,
                                                      Advance(r)),
              path |-> "template"]

\* _generate_fallback_question, reading the random state r
generate_fallback_question(req, core_type, cs, index, r) ==
    IF Len(cs) = 0 THEN Raised("ZeroDivisionError")
    ELSE LET concept == cs[(index % Len(cs)) + 1]
             templates == IF core_type \in DOMAIN question_templates
                          THEN question_templates[core_type]
                          ELSE question_templates["baseline"]
             template == choice(templates, r)
             question == Format(template, concept, req.topic)
             options_data == IF core_type = "baseline"
                             THEN generate_baseline_options(req.topic, concept, req.level,
                                                            Advance(r))
                             ELSE generate_variable_options(req.topic, concept, req.level,
                                                            Advance(r))
         IN  [data |-> options_data, path |-> "template"]

\* lines 332-338: the parsed record is returned, anything else is the fallback question
parsed_or_fallback(parsed, fallback) ==
    IF parsed.parsed THEN [data |-> parsed, path |-> "ai"]
    ELSE IF IsRaised(fallback) THEN fallback
    ELSE [data |-> fallback.data, path |-> "fallback"]

\* _generate_ai_question; backend is what self.question_generator(prompt) does, explain
\* what the explanation call inside the parser does.  An exception (ZeroDivisionError of
\* line 313, the backend's own) is caught at line 340 and leads to the same fallback call
\* as an unparsable text.
generate_ai_question(req, core_type, cs, index, backend, explain, r) ==
    parsed_or_fallback(IF Len(cs) = 0 \/ backend.raises
                       THEN Unparsable
                       ELSE parse_ai_generated_question(backend.text, explain),
                       generate_fallback_question(req, core_type, cs, index, r))

\* the id field: f"AI_GEN_{n}"
IdOf(n) == <<"AI_GEN_", n>>

\* id=f"AI_GEN_{self.question_id_counter + index}"
question_id_constant(counter, index) == IdOf(counter)

question_id(counter, index) == IdOf(counter + index)

core_type_ignoring_override(req, index) ==
    determine_core_type(req.level, index, req.num_questions)

\* lines 269-272
core_type_of(req, index) ==
    IF req.core_type # None /\ req.core_type # ""
    THEN req.core_type
    ELSE determine_core_type(req.level, index, req.num_questions)

GeneratedQuestion(req, index, core_type, question_data, counter) ==
    [id |-> question_id(counter, index),
     core_type |-> core_type,
     level |-> req.level,
     topic |-> req.topic,
     question |-> question_data.question,
     options |-> question_data.options,
     correct |-> question_data.correct,
     explanation |-> question_data.explanation]

\* lines 280-289: the GeneratedQuestion built from question_data, or the exception that
\* escaped the call that should have produced question_data
single_question_from(req, index, core_type, question_data, counter) ==
    IF IsRaised(question_data) THEN question_data
    ELSE [question |-> GeneratedQuestion(req, index, core_type, question_data.data, counter),
          path |-> question_data.path]

\* _generate_single_question that takes the AI path whatever models_loaded is
single_question_always_ai(req, index, cs, loaded, counter, backend, explain, r, core_type) ==
    single_question_from(req, index, core_type,
                         generate_ai_question(req, core_type, cs, index, backend, explain, r),
                         counter)

\* lines 274-278 and 280-289 for a core type already determined.  The path of a question
\* tells how it came about: "template" straight from line 278, "ai" from the parsed text
\* of the backend, "fallback" from lines 336 and 342 after the backend was tried.
single_question_of_type(req, index, cs, loaded, counter, backend, explain, r, core_type) ==
    single_question_from(req, index, core_type,
                         IF loaded = TRUE
                         THEN generate_ai_question(req, core_type, cs, index, backend,
                                                   explain, r)
                         ELSE generate_fallback_question(req, core_type, cs, index, r),
                         counter)

\* _generate_single_question, lines 266-289: the question, or the exception that escapes
generate_single_question(req, index, cs, loaded, counter, backend, explain, r) ==
    single_question_of_type(req, index, cs, loaded, counter, backend, explain, r,
                            core_type_of(req, index))

\* the random state after one question: the template path calls random.choice and
\* random.shuffle once each, the AI path neither
RandomAfter(path, r) == IF path = "ai" THEN r ELSE Advance(Advance(r))

\* generate_questions lines 250-258 with the universal list appended whatever the length
\* of the topic's list
batch_concepts_always_extended(req, universal, generators, r) ==
    LET ref == get_concepts_ref(req.topic, req.level)
        stored == Deref(ref, universal, generators)
    IN  [concepts |-> shuffle(stored \o universal[req.level], r),
         alias |-> None,
         universal |-> universal,
         generators |-> generators]

\* generate_questions lines 250-258: the list the batch draws from and the stored tables
\* afterwards.  random.shuffle works in place: without the copy made by `+` the list
\* shuffled is the stored one.
batch_concepts(req, universal, generators, r) ==
    LET ref == get_concepts_ref(req.topic, req.level)
        stored == Deref(ref, universal, generators)
        extend == Len(stored) < req.num_questions
        list == IF extend THEN stored \o universal[req.level] ELSE stored
        shuffled == shuffle(list, r)
    IN  [concepts |-> shuffled,
         alias |-> IF extend THEN None ELSE ref,
         universal |-> IF ~extend /\ ref.table = "universal_concepts"
                       THEN [universal EXCEPT ![ref.level] = shuffled]
                       ELSE universal,
         generators |-> IF ~extend /\ ref.table = "topic_concept_generators"
                        THEN [generators EXCEPT ![ref.key][ref.level] = shuffled]
                        ELSE generators]

\* one iteration of the loop of lines 260-262 that produced q in random state r
range_of_one(q, r) ==
    IF IsRaised(q) THEN q
    ELSE [questions |-> <<q.question>>, paths |-> <<q.path>>,
          rng |-> RandomAfter(q.path, r)]

\* the iterations `left` followed by the iterations `right`
range_join(left, right) ==
    IF IsRaised(right) THEN right
    ELSE [questions |-> left.questions \o right.questions,
          paths |-> left.paths \o right.paths,
          rng |-> right.rng]

RECURSIVE generate_range(_, _, _, _, _, _, _)
RECURSIVE range_after(_, _, _, _, _, _, _)

\* the iterations lo .. hi of the loop of lines 260-262, started in random state r, on an
\* instance that is not ready: the questions, the path of each and the random state
\* afterwards, or the exception of the first iteration that raises.  The range is halved
\* to keep the evaluation shallow; the iterations still run in index order.
generate_range(req, cs, loaded, counter, r, lo, hi) ==
    IF lo > hi THEN [questions |-> <<>>, paths |-> <<>>, rng |-> r]
    ELSE IF lo = hi
    THEN range_of_one(generate_single_question(req, lo, cs, loaded, counter, BackendRaises,
                                               BackendRaises, r), r)
    ELSE range_after(req, cs, loaded, counter,
                     generate_range(req, cs, loaded, counter, r, lo, (lo + hi) \div 2),
                     ((lo + hi) \div 2) + 1, hi)

\* the iterations lo .. hi after the iterations `left`, which stop the loop when they raised
range_after(req, cs, loaded, counter, left, lo, hi) ==
    IF IsRaised(left) THEN left
    ELSE range_join(left, generate_range(req, cs, loaded, counter, left.rng, lo, hi))

\* _question_to_dict, lines 496-508
question_to_dict(q) ==
    [id |-> q.id, core_type |-> q.core_type, level |-> q.level, topic |-> q.topic,
     question |-> q.question, options |-> q.options, correct |-> q.correct,
     explanation |-> q.explanation]

-----------------------------------------------------------------------------
(* Inputs of Spec *)

Topics == {<<"Python">>, <<"Rust">>}
Seeds == 0..(MaxSeed - 1)
Requests ==
    [topic : Topics, level : Levels, num_questions : 1..MaxQuestions,
     core_type : {None} \cup CoreTypes]

NoRequest == [topic |-> <<>>, level |-> None, num_questions |-> 0, core_type |-> None]

BackendOutcomes ==
    {BackendRaises,
     BackendReturns(<<"Q", "?", " ", "A", ")", " ", "x", " ", "B", ")", " ", "y">>)}

NoOutcome == [kind |-> "none", entry |-> None, body |-> <<>>]

FallbackAttrs == {"universal_concepts", "topic_concept_generators", "question_templates"}

\* the questions of the batch the last finished call returned
ReturnedQuestions ==
    IF outcome.kind # "returned" THEN <<>>
    ELSE IF outcome.entry = "generate_quiz" THEN outcome.body.questions
    ELSE outcome.body

IdsOf(qs) == {qs[i].id : i \in DOMAIN qs}

-----------------------------------------------------------------------------
(* Actions of Spec *)

Init ==
    /\ pc = "new"
    /\ TRANSFORMERS_AVAILABLE \in BOOLEAN
    /\ attrs = {}
    /\ models_loaded = None
    /\ ssl_i = 0
    /\ question_id_counter = 0
    /\ universal_concepts = <<>>
    /\ topic_concept_generators = <<>>
    /\ request = NoRequest
    /\ concepts = <<>>
    /\ concepts_alias = None
    /\ questions = <<>>
    /\ outcome = NoOutcome
    /\ issued = {}
    /\ calls = 0
    /\ rng \in Seeds
    /\ arg = None
    /\ ret = [done |-> FALSE, value |-> None]
    /\ generator_ready = FALSE

\* __init__, lines 56-77, up to the first attempt to load the models
Construct ==
    /\ pc = "new"
    /\ question_id_counter' = 1000
    /\ IF ~TRANSFORMERS_AVAILABLE
       THEN /\ models_loaded' = FALSE
            /\ universal_concepts' = InitialUniversalConcepts
            /\ topic_concept_generators' = InitialTopicConceptGenerators
            /\ attrs' = {"question_id_counter", "device", "models_loaded", "core_distribution"}
                        \cup FallbackAttrs
            /\ pc' = "idle"
       ELSE /\ attrs' = {"question_id_counter", "device"}
            /\ pc' = "loading"
            /\ UNCHANGED <<models_loaded, universal_concepts, topic_concept_generators>>
    /\ ssl_i' = 0
    /\ UNCHANGED <<TRANSFORMERS_AVAILABLE, request, concepts, concepts_alias, questions,
                   outcome, issued, calls, rng, arg, ret,
                   generator_ready>>

\* _initialize_ai_models, lines 102-108: ssl_method() returns
LoadSucceeds ==
    /\ pc = "loading"
    /\ models_loaded' = TRUE
    /\ attrs' = attrs \cup {"question_generator", "concept_generator", "models_loaded",
                            "core_distribution"}
    /\ pc' = "idle"
    /\ UNCHANGED <<TRANSFORMERS_AVAILABLE, ssl_i, question_id_counter, universal_concepts,
                   topic_concept_generators, request, concepts, concepts_alias, questions,
                   outcome, issued, calls, rng, arg, ret,
                   generator_ready>>

\* _initialize_ai_models giving up after the first method that raises
LoadFails_no_retry ==
    /\ pc = "loading"
    /\ models_loaded' = FALSE
    /\ universal_concepts' = InitialUniversalConcepts
    /\ topic_concept_generators' = InitialTopicConceptGenerators
    /\ attrs' = attrs \cup {"models_loaded", "core_distribution"} \cup FallbackAttrs
    /\ pc' = "idle"
    /\ UNCHANGED <<TRANSFORMERS_AVAILABLE, ssl_i, question_id_counter, request, concepts,
                   concepts_alias, questions, outcome, issued, calls, rng, arg, ret,
                   generator_ready>>

\* _initialize_ai_models, lines 109-120: ssl_method() raises
LoadFails ==
    /\ pc = "loading"
    /\ IF ssl_i < 2
       THEN /\ ssl_i' = ssl_i + 1
            /\ UNCHANGED <<pc, attrs, models_loaded, universal_concepts,
                           topic_concept_generators>>
       ELSE /\ models_loaded' = FALSE
            /\ universal_concepts' = InitialUniversalConcepts
            /\ topic_concept_generators' = InitialTopicConceptGenerators
            /\ attrs' = attrs \cup {"models_loaded", "core_distribution"} \cup FallbackAttrs
            /\ pc' = "idle"
            /\ UNCHANGED ssl_i
    /\ UNCHANGED <<TRANSFORMERS_AVAILABLE, question_id_counter, request, concepts,
                   concepts_alias, questions, outcome, issued, calls, rng, arg, ret,
                   generator_ready>>

\* generate_questions lines 247-258 (entered directly or through generate_quiz, 478-486)
Call(req) ==
    /\ pc = "idle"
    /\ calls < MaxCalls
    /\ calls' = calls + 1
    /\ request' = req
    /\ questions' = <<>>
    /\ IF ~(FallbackAttrs \subseteq attrs)
       THEN /\ outcome' = [kind |-> "raised", entry |-> None, body |-> "AttributeError"]
            /\ concepts' = <<>>
            /\ concepts_alias' = None
            /\ pc' = "raised"
            /\ UNCHANGED <<universal_concepts, topic_concept_generators, rng>>
       ELSE IF req.level \notin DOMAIN universal_concepts
       THEN /\ outcome' = [kind |-> "raised", entry |-> None, body |-> "KeyError"]
            /\ concepts' = <<>>
            /\ concepts_alias' = None
            /\ pc' = "raised"
            /\ UNCHANGED <<universal_concepts, topic_concept_generators, rng>>
       ELSE \E b \in {batch_concepts(req, universal_concepts, topic_concept_generators,
                                     rng)} :
                /\ concepts' = b.concepts
                /\ concepts_alias' = b.alias
                /\ universal_concepts' = b.universal
                /\ topic_concept_generators' = b.generators
                /\ outcome' = [kind |-> "running", entry |-> None, body |-> <<>>]
                /\ rng' = Advance(rng)
                /\ pc' = "generating"
    /\ UNCHANGED <<TRANSFORMERS_AVAILABLE, attrs, models_loaded, ssl_i, question_id_counter,
                   issued, arg, ret,
                   generator_ready>>

\* one iteration of the loop of lines 260-262: _generate_single_question
GenerateSingleQuestion(result) ==
    /\ pc = "generating"
    /\ Len(questions) < request.num_questions
    /\ IF IsRaised(result)
       THEN /\ outcome' = [kind |-> "raised", entry |-> None, body |-> result.raises]
            /\ pc' = "raised"
            /\ UNCHANGED <<questions, rng>>
       ELSE /\ questions' = Append(questions, result.question)
            /\ rng' = RandomAfter(result.path, rng)
            /\ UNCHANGED <<pc, outcome>>
    /\ UNCHANGED <<TRANSFORMERS_AVAILABLE, attrs, models_loaded, ssl_i, question_id_counter,
                   universal_concepts, topic_concept_generators, request, concepts,
                   concepts_alias, issued, calls, arg, ret,
                   generator_ready>>

\* line 264 indented into the loop: the list is returned after the first question
Return_inside_loop ==
    /\ pc = "generating"
    /\ Len(questions) >= 1
    /\ outcome' = [kind |-> "returned", entry |-> "generate_questions", body |-> questions]
    /\ pc' = "returned"
    /\ questions' = <<>>
    /\ concepts' = <<>>
    /\ concepts_alias' = None
    /\ UNCHANGED <<TRANSFORMERS_AVAILABLE, attrs, models_loaded, ssl_i, question_id_counter,
                   universal_concepts, topic_concept_generators, request, issued, calls,
                   rng, arg, ret, generator_ready>>

\* line 264: generate_questions returns the list to a direct caller
Return ==
    /\ pc = "generating"
    /\ Len(questions) = request.num_questions
    /\ outcome' = [kind |-> "returned", entry |-> "generate_questions", body |-> questions]
    /\ pc' = "returned"
    /\ questions' = <<>>
    /\ concepts' = <<>>
    /\ concepts_alias' = None
    /\ UNCHANGED <<TRANSFORMERS_AVAILABLE, attrs, models_loaded, ssl_i, question_id_counter,
                   universal_concepts, topic_concept_generators, request, issued, calls,
                   rng, arg, ret,
                   generator_ready>>

\* line 264 when the call came through generate_quiz, which wraps the list (lines 486-494)
ReturnQuiz ==
    /\ pc = "generating"
    /\ Len(questions) = request.num_questions
    /\ outcome' = [kind |-> "returned", entry |-> "generate_quiz",
                   body |-> [topic |-> request.topic, level |-> request.level,
                             total_questions |-> Len(questions),
                             generated_at |-> "isoformat",
                             questions |-> [i \in DOMAIN questions |->
                                               question_to_dict(questions[i])]]]
    /\ pc' = "returned"
    /\ questions' = <<>>
    /\ concepts' = <<>>
    /\ concepts_alias' = None
    /\ UNCHANGED <<TRANSFORMERS_AVAILABLE, attrs, models_loaded, ssl_i, question_id_counter,
                   universal_concepts, topic_concept_generators, request, issued, calls,
                   rng, arg, ret,
                   generator_ready>>

\* the end of a call that tries again to load the backend
Consume_reloading ==
    /\ pc \in {"returned", "raised"}
    /\ pc' = "idle"
    /\ issued' = issued \cup IdsOf(ReturnedQuestions)
    /\ outcome' = NoOutcome
    /\ request' = NoRequest
    /\ models_loaded' = TRANSFORMERS_AVAILABLE
    /\ UNCHANGED <<TRANSFORMERS_AVAILABLE, attrs, ssl_i, question_id_counter,
                   universal_concepts, topic_concept_generators, concepts, concepts_alias,
                   questions, calls, rng, arg, ret, generator_ready>>

\* the caller takes the result (or the exception) of the call; the instance is free for
\* the next call
Consume ==
    /\ pc \in {"returned", "raised"}
    /\ pc' = "idle"
    /\ issued' = issued \cup IdsOf(ReturnedQuestions)
    /\ outcome' = NoOutcome
    /\ request' = NoRequest
    /\ UNCHANGED <<TRANSFORMERS_AVAILABLE, attrs, models_loaded, ssl_i, question_id_counter,
                   universal_concepts, topic_concept_generators, concepts, concepts_alias,
                   questions, calls, rng, arg, ret,
                   generator_ready>>

\* what _generate_single_question does for the next index, for every behaviour of the
\* backend
SingleQuestionResults ==
    IF pc # "generating" \/ Len(questions) >= request.num_questions THEN {}
    ELSE {generate_single_question(request, Len(questions), concepts, models_loaded,
                                   question_id_counter, backend, explain, rng) :
              backend \in (IF models_loaded = TRUE THEN BackendOutcomes ELSE {BackendRaises}),
              explain \in (IF models_loaded = TRUE THEN BackendOutcomes ELSE {BackendRaises})}

Next ==
    \/ Construct
    \/ LoadSucceeds
    \/ LoadFails
    \/ \E req \in Requests : Call(req)
    \/ \E result \in SingleQuestionResults : GenerateSingleQuestion(result)
    \/ Return
    \/ ReturnQuiz
    \/ Consume

Spec == Init /\ [][Next]_vars

-----------------------------------------------------------------------------
(* Function specifications: one method is applied to an input drawn from a    *)
(* bounded set; the instance itself stays as it is before construction.       *)

FnInit(inputs) ==
    /\ pc = "function"
    /\ TRANSFORMERS_AVAILABLE = FALSE
    /\ attrs = {}
    /\ models_loaded = None
    /\ ssl_i = 0
    /\ question_id_counter = 0
    /\ universal_concepts = <<>>
    /\ topic_concept_generators = <<>>
    /\ request = NoRequest
    /\ concepts = <<>>
    /\ concepts_alias = None
    /\ questions = <<>>
    /\ outcome = NoOutcome
    /\ issued = {}
    /\ calls = 0
    /\ rng = 0
    /\ arg \in inputs
    /\ ret = [done |-> FALSE, value |-> None]
    /\ generator_ready = FALSE

\* the call returns: ret holds the value of the method
FnReturn(value) ==
    /\ pc = "function"
    /\ ~ret.done
    /\ ret' = [done |-> TRUE, value |-> value]
    /\ UNCHANGED <<genvars, arg>>

-----------------------------------------------------------------------------
(* SpecCoreType: AIQuestionGenerator._determine_core_type *)

CoreTypeInputs ==
    {a \in [level : Levels, index : 0..(MaxTotal - 1), total_questions : 1..MaxTotal] :
        a.index < a.total_questions}

InitCoreType == FnInit(CoreTypeInputs)

DetermineCoreType ==
    FnReturn(determine_core_type(arg.level, arg.index, arg.total_questions))

SpecCoreType == InitCoreType /\ [][DetermineCoreType]_vars

-----------------------------------------------------------------------------
(* SpecOptions: AIQuestionGenerator._generate_baseline_options and            *)
(* _generate_variable_options, for every outcome of the shuffle               *)

OptionConcepts == {<<"syntax">>, <<"data", "types">>}

OptionsInputs ==
    [fn : {"_generate_baseline_options", "_generate_variable_options"},
     topic : Topics, concept : OptionConcepts, level : Levels, seed : ShuffleOutcomes]

InitOptions == FnInit(OptionsInputs)

GenerateBaselineOptions ==
    /\ arg.fn = "_generate_baseline_options"
    /\ FnReturn(generate_baseline_options(arg.topic, arg.concept, arg.level, arg.seed))

GenerateVariableOptions ==
    /\ arg.fn = "_generate_variable_options"
    /\ FnReturn(generate_variable_options(arg.topic, arg.concept, arg.level, arg.seed))

NextOptions == GenerateBaselineOptions \/ GenerateVariableOptions

SpecOptions == InitOptions /\ [][NextOptions]_vars

\* C3: for every permutation of the shuffle, the option under the label `correct` is the
\* correct statement of the category, no other label holds it, and the three other labels
\* hold the three incorrect statements.
C3_CorrectLabelNamesCorrectStatement ==
    ret.done =>
        LET d == ret.value
            others == {k \in Range(d.options.keys) : k # d.correct}
            baseline == arg.fn = "_generate_baseline_options"
            correct_statement == IF baseline
                                 THEN BaselineCorrectText(arg.topic, arg.concept)
                                 ELSE VariableCorrectText(arg.topic, arg.concept)
            incorrect_statements == IF baseline
                                    THEN BaselineIncorrectOptions(arg.topic, arg.concept)
                                    ELSE VariableIncorrectOptions(arg.topic, arg.concept)
        IN  /\ d.correct \in Range(d.options.keys)
            /\ d.options.val[d.correct] = correct_statement
            /\ \A k \in others : d.options.val[k] # correct_statement
            /\ Cardinality(others) = 3
            /\ {d.options.val[k] : k \in others} = Range(incorrect_statements)

\* a permutation that moves the correct statement from the first place to the last label
C3_Witness ==
    /\ ret.done
    /\ arg.fn = "_generate_variable_options"
    /\ ret.value.correct = "D"
    /\ ret.value.options.val["D"] = VariableCorrectText(arg.topic, arg.concept)
    /\ ret.value.options.val["A"] = VariableIncorrectOptions(arg.topic, arg.concept)[3]

-----------------------------------------------------------------------------
(* SpecCreateOptions: _create_options_dict on texts that may collide *)

CollisionTexts == {<<"x">>, <<"y">>, <<"z">>}

CreateOptionsInputs ==
    [correct_text : CollisionTexts, incorrect_options : [1..3 -> CollisionTexts],
     seed : 0..(Fact(4) - 1)]

InitCreateOptions == FnInit(CreateOptionsInputs)

CreateOptionsDict ==
    FnReturn(create_options_dict(arg.correct_text, arg.incorrect_options, <<"lists">>,
                                 <<"Python">>, "beginner", arg.seed))

SpecCreateOptions == InitCreateOptions /\ [][CreateOptionsDict]_vars

\* C24: when the correct text equals one of the incorrect texts, _create_options_dict
\* records label 'A' as the correct label, for every permutation of the shuffle.
C24_CollisionFallsBackToA ==
    (ret.done /\ \E k \in 1..3 : arg.incorrect_options[k] = arg.correct_text) =>
        ret.value.correct = "A"

-----------------------------------------------------------------------------
(* Whole calls of generate_questions and generate_quiz, as values              *)

\* lines 260-264 after the list b was built in random state r: what the call returns or
\* raises, and the stored tables and the random state it leaves
batch_result(b, g, r) ==
    IF IsRaised(g)
    THEN [kind |-> "raised", body |-> g.raises, paths |-> <<>>, concepts |-> b.concepts,
          universal |-> b.universal, generators |-> b.generators, rng |-> Advance(r)]
    ELSE [kind |-> "returned", body |-> g.questions, paths |-> g.paths,
          concepts |-> b.concepts,
          universal |-> b.universal, generators |-> b.generators, rng |-> g.rng]

\* lines 260-264 when the list b, an alias of a stored list, is shuffled again after the
\* question of index 0 was generated
questions_of_batch_reshuffled(req, b, loaded, counter, r) ==
    batch_result(b, range_after(req, shuffle(b.concepts, Advance(r)), loaded, counter,
                                generate_range(req, b.concepts, loaded, counter, Advance(r),
                                               0, 0),
                                1, req.num_questions - 1), r)

\* lines 260-264 for the list b
questions_of_batch(req, b, loaded, counter, r) ==
    batch_result(b, generate_range(req, b.concepts, loaded, counter, Advance(r), 0,
                                   req.num_questions - 1), r)

\* generate_questions, lines 245-264, from call to return, on an instance that has the
\* attributes `at`
generate_questions(req, at, universal, generators, loaded, counter, r) ==
    IF ~(FallbackAttrs \subseteq at)
    THEN [kind |-> "raised", body |-> "AttributeError", paths |-> <<>>, concepts |-> <<>>,
          universal |-> universal, generators |-> generators, rng |-> r]
    ELSE IF req.level \notin DOMAIN universal
    THEN [kind |-> "raised", body |-> "KeyError", paths |-> <<>>, concepts |-> <<>>,
          universal |-> universal, generators |-> generators, rng |-> r]
    ELSE questions_of_batch(req, batch_concepts(req, universal, generators, r), loaded,
                            counter, r)

\* lines 488-494: the dict generate_quiz builds around the questions
quiz_of(topic, level, g) ==
    IF g.kind = "raised" THEN g
    ELSE [g EXCEPT !.body = [topic |-> topic, level |-> level,
                             total_questions |-> Len(g.body),
                             generated_at |-> "isoformat",
                             questions |-> [i \in DOMAIN g.body |->
                                               question_to_dict(g.body[i])]]]

\* generate_quiz, lines 476-494
generate_quiz(topic, level, num_questions, core_type, at, universal, generators, loaded, counter, r) ==
    quiz_of(topic, level,
            generate_questions([topic |-> topic, level |-> level,
                                num_questions |-> num_questions, core_type |-> core_type],
                               at, universal, generators, loaded, counter, r))

-----------------------------------------------------------------------------
(* SpecBatch: one whole call of generate_questions on an instance whose       *)
(* backend is not ready, for batches of up to MaxBatch questions              *)

BatchRequests ==
    [topic : Topics, level : Levels, num_questions : 1..MaxBatch,
     core_type : {None} \cup CoreTypes]

\* the instance as __init__ leaves it when transformers is missing (lines 61-64) or when
\* the third load attempt failed (lines 117-120)
InitBatch ==
    /\ pc = "function"
    /\ TRANSFORMERS_AVAILABLE \in BOOLEAN
    /\ attrs = {"question_id_counter", "device", "models_loaded", "core_distribution"}
               \cup FallbackAttrs
    /\ models_loaded = FALSE
    /\ ssl_i = IF TRANSFORMERS_AVAILABLE THEN 2 ELSE 0
    /\ question_id_counter = 1000
    /\ universal_concepts = InitialUniversalConcepts
    /\ topic_concept_generators = InitialTopicConceptGenerators
    /\ request = NoRequest
    /\ concepts = <<>>
    /\ concepts_alias = None
    /\ questions = <<>>
    /\ outcome = NoOutcome
    /\ issued = {}
    /\ calls = 0
    /\ rng \in Seeds
    /\ arg \in BatchRequests
    /\ ret = [done |-> FALSE, value |-> None]
    /\ generator_ready = FALSE

\* generate_questions, lines 245-264, from call to return
GenerateQuestions ==
    /\ pc = "function"
    /\ ~ret.done
    /\ calls' = calls + 1
    /\ IF ~(FallbackAttrs \subseteq attrs)
       THEN /\ ret' = [done |-> TRUE,
                       value |-> [kind |-> "raised", body |-> "AttributeError"]]
            /\ UNCHANGED <<universal_concepts, topic_concept_generators, rng, concepts>>
       ELSE \E b \in {batch_concepts(arg, universal_concepts, topic_concept_generators,
                                     rng)} :
            \E r \in {generate_range(arg, b.concepts, models_loaded, question_id_counter,
                                     Advance(rng), 0, arg.num_questions - 1)} :
                /\ concepts' = b.concepts
                /\ universal_concepts' = b.universal
                /\ topic_concept_generators' = b.generators
                /\ IF IsRaised(r)
                   THEN /\ ret' = [done |-> TRUE,
                                   value |-> [kind |-> "raised", body |-> r.raises]]
                        /\ rng' = Advance(rng)
                   ELSE /\ ret' = [done |-> TRUE,
                                   value |-> [kind |-> "returned", body |-> r.questions,
                                              paths |-> r.paths]]
                        /\ rng' = r.rng
    /\ UNCHANGED <<pc, TRANSFORMERS_AVAILABLE, attrs, models_loaded, ssl_i,
                   question_id_counter, request, concepts_alias, questions,
                   outcome, issued, arg, generator_ready>>

SpecBatch == InitBatch /\ [][GenerateQuestions]_vars

\* C6: when the backend is not ready, generate_questions for any topic, level and
\* num_questions in 1..MaxBatch returns num_questions structurally valid questions, all
\* produced by the template path, and raises nothing.
C6_NotReadyReturnsFullValidBatch ==
    ret.done =>
        /\ ret.value.kind = "returned"
        /\ Len(ret.value.body) = arg.num_questions
        /\ \A i \in DOMAIN ret.value.body :
               LET q == ret.value.body[i]
               IN  /\ DOMAIN q = {"id", "core_type", "level", "topic", "question",
                                  "options", "correct", "explanation"}
                   /\ q.options.keys = <<"A", "B", "C", "D">>
                   /\ DOMAIN q.options.val = AD
                   /\ q.correct \in Range(q.options.keys)
                   /\ ret.value.paths[i] = "template"

\* the largest batch, which outruns the topic's list extended by the universal list
C6_Witness ==
    /\ ret.done
    /\ models_loaded = FALSE
    /\ arg.num_questions = MaxBatch
    /\ ret.value.kind = "returned"
    /\ Len(ret.value.body) = MaxBatch

\* C9: when the request carries a core_type, every question of the batch has that
\* core_type, whatever the level, the index and num_questions.
C9_OverrideAppliesToWholeBatch ==
    (ret.done /\ arg.core_type # None /\ ret.value.kind = "returned") =>
        \A i \in DOMAIN ret.value.body : ret.value.body[i].core_type = arg.core_type

\* an override that differs from what the distribution gives index 0
C9_Witness ==
    /\ ret.done
    /\ arg.core_type = "variable"
    /\ arg.level = "beginner"
    /\ arg.num_questions = MaxBatch
    /\ ret.value.kind = "returned"
    /\ ret.value.body[1].core_type = "variable"
    /\ determine_core_type(arg.level, 0, arg.num_questions) = "baseline"

\* C18: the concept list generate_questions builds for a batch (the topic's list,
\* extended with the level's universal concepts when it is shorter than num_questions)
\* contains no concept twice.
C18_BatchConceptListHasNoDuplicate ==
    ret.done =>
        \A i, j \in DOMAIN concepts : i # j => concepts[i] # concepts[j]

\* C21: while models_loaded is false the generation backend is never invoked: every
\* question of every batch comes straight from _generate_fallback_question.
C21_NotLoadedNeverInvokesBackend ==
    (ret.done /\ models_loaded = FALSE) =>
        \A i \in DOMAIN ret.value.paths :
            ret.value.paths[i] \notin {"ai", "fallback"}

\* transformers is importable, the three loading methods failed, and a batch was made
C21_Witness ==
    /\ ret.done
    /\ TRANSFORMERS_AVAILABLE
    /\ models_loaded = FALSE
    /\ ret.value.kind = "returned"
    /\ arg.num_questions = 3
    /\ ret.value.paths = <<"template", "template", "template">>

\* the number of times x occurs in the sequence s
Occurrences(s, x) == Cardinality({i \in DOMAIN s : s[i] = x})

\* s is a rearrangement of t
IsPermutationOf(s, t) ==
    /\ Len(s) = Len(t)
    /\ \A x \in Range(s) \cup Range(t) : Occurrences(s, x) = Occurrences(t, x)

\* C25: in a batch the concept of the question at index i is concepts[i mod len(concepts)],
\* where concepts is one permutation of the topic's list for the level, extended by the
\* level's universal list exactly when the topic's list is shorter than num_questions;
\* the list is never empty.
C25_ConceptOfIndexWrapsOverOnePermutation ==
    (ret.done /\ ret.value.kind = "returned") =>
        LET stored == Deref(get_concepts_ref(arg.topic, arg.level),
                            InitialUniversalConcepts, InitialTopicConceptGenerators)
            expected == IF Len(stored) < arg.num_questions
                        THEN stored \o InitialUniversalConcepts[arg.level]
                        ELSE stored
        IN  /\ Len(concepts) > 0
            /\ IsPermutationOf(concepts, expected)
            /\ \A i \in DOMAIN ret.value.body :
                   LET concept == concepts[((i - 1) % Len(concepts)) + 1]
                       q == ret.value.body[i]
                   IN  /\ q.question
                          = <<"What", "is", "the", "most", "accurate", "description", "of">>
                            \o concept \o <<"in">> \o arg.topic \o <<"?">>
                       /\ q.options.val[q.correct]
                          \in {BaselineCorrectText(arg.topic, concept),
                               VariableCorrectText(arg.topic, concept)}

\* a batch longer than the extended list: index 15 wraps to the concept of index 0
C25_Witness ==
    /\ ret.done
    /\ ret.value.kind = "returned"
    /\ arg.topic = <<"Python">>
    /\ arg.level = "beginner"
    /\ arg.num_questions = MaxBatch
    /\ Len(concepts) = 15
    /\ ret.value.body[16].question = ret.value.body[1].question
    /\ ret.value.body[2].question # ret.value.body[1].question

\* C29: generate_questions leaves the stored concept catalog unchanged: after the call
\* every list of topic_concept_generators and universal_concepts holds the same elements
\* in the same order as before the call.
C29_CallLeavesCatalogUnchanged ==
    ret.done =>
        /\ universal_concepts = InitialUniversalConcepts
        /\ topic_concept_generators = InitialTopicConceptGenerators

-----------------------------------------------------------------------------
(* SpecConcepts: AIQuestionGenerator._get_concepts_for_topic on the catalog   *)
(* of a fresh instance.                                                       *)

TopicWords == {"Python", "PYTHON", "programming", "javascript", "Java", "Rust", "gram", "on"}

ConceptsInputs ==
    [topic : {<<w>> : w \in TopicWords} \cup {<<v, w>> : v, w \in TopicWords}, level : Levels]

InitConcepts == FnInit(ConceptsInputs)

GetConceptsForTopic ==
    FnReturn(Deref(get_concepts_ref(arg.topic, arg.level),
                   InitialUniversalConcepts, InitialTopicConceptGenerators))

SpecConcepts == InitConcepts /\ [][GetConceptsForTopic]_vars

\* C26: _get_concepts_for_topic returns the level's list of the first of the keys
\* programming, python, javascript that contains the lower-cased topic or is contained
\* in it, and the level's universal list when no key matches.
C26_FirstMatchingKeyInCatalogOrder ==
    ret.done =>
        LET t == lower(TextOf(arg.topic))
            Matches(key) == IsSubstring(Chars(key), t) \/ IsSubstring(t, Chars(key))
        IN  ret.value
              = IF Matches("programming")
                THEN InitialTopicConceptGenerators["programming"][arg.level]
                ELSE IF Matches("python")
                THEN InitialTopicConceptGenerators["python"][arg.level]
                ELSE IF Matches("javascript")
                THEN InitialTopicConceptGenerators["javascript"][arg.level]
                ELSE InitialUniversalConcepts[arg.level]

\* 'PYTHON programming' matches two keys and gets the programming list
C26_Witness ==
    /\ ret.done
    /\ arg.topic = <<"PYTHON", "programming">>
    /\ arg.level = "beginner"
    /\ ret.value = <<<<"variables">>, <<"loops">>, <<"functions">>, <<"conditionals">>,
                     <<"arrays">>, <<"strings">>>>
    /\ ret.value # InitialTopicConceptGenerators["python"]["beginner"]

-----------------------------------------------------------------------------
(* SpecQuiz: one whole call of generate_quiz(topic, level, num_questions) on  *)
(* an instance whose backend is not ready                                     *)

MaxQuiz == 8           \* largest num_questions in SpecQuiz

QuizRequests ==
    [topic : Topics, level : Levels, num_questions : 1..MaxQuiz, core_type : {None}]

InitQuiz ==
    /\ pc = "function"
    /\ TRANSFORMERS_AVAILABLE \in BOOLEAN
    /\ attrs = {"question_id_counter", "device", "models_loaded", "core_distribution"}
               \cup FallbackAttrs
    /\ models_loaded = FALSE
    /\ ssl_i = IF TRANSFORMERS_AVAILABLE THEN 2 ELSE 0
    /\ question_id_counter = 1000
    /\ universal_concepts = InitialUniversalConcepts
    /\ topic_concept_generators = InitialTopicConceptGenerators
    /\ request = NoRequest
    /\ concepts = <<>>
    /\ concepts_alias = None
    /\ questions = <<>>
    /\ outcome = NoOutcome
    /\ issued = {}
    /\ calls = 0
    /\ rng \in Seeds
    /\ arg \in QuizRequests
    /\ ret = [done |-> FALSE, value |-> None]
    /\ generator_ready = FALSE

\* generate_quiz, lines 476-494, from call to return
GenerateQuiz ==
    /\ pc = "function"
    /\ ~ret.done
    /\ calls' = calls + 1
    /\ \E g \in {generate_quiz(arg.topic, arg.level, arg.num_questions, arg.core_type,
                                attrs, universal_concepts, topic_concept_generators,
                                models_loaded, question_id_counter, rng)} :
           /\ universal_concepts' = g.universal
           /\ topic_concept_generators' = g.generators
           /\ rng' = g.rng
           /\ ret' = [done |-> TRUE, value |-> [kind |-> g.kind, body |-> g.body]]
    /\ UNCHANGED <<pc, TRANSFORMERS_AVAILABLE, attrs, models_loaded, ssl_i,
                   question_id_counter, request, concepts, concepts_alias, questions,
                   outcome, issued, arg, generator_ready>>

SpecQuiz == InitQuiz /\ [][GenerateQuiz]_vars

\* the number of questions of the sequence qs whose core_type is c
CountCoreType(qs, c) == Cardinality({i \in DOMAIN qs : qs[i].core_type = c})

-----------------------------------------------------------------------------
(* SpecParser: _parse_ai_generated_question and _generate_ai_question on raw  *)
(* model text made of a stem, lettered options and an answer line             *)

MaxOptions == 4        \* most lettered options in a text of SpecParser

ParserStems ==
    {<<"Q", "?">>, <<"W", "h", "y", " ", "x", "?">>}

OptionTexts == <<<<"o", "n", "e">>, <<"t", "w", "o">>, <<"s", "i", "x">>, <<"t", "e", "n">>,
                 <<"z", "e", "r", "o">>>>

\* the line naming the answer, in several letter cases; <<>> when the text has none
AnswerLines ==
    {<<>>,
     <<"A", "n", "s", "w", "e", "r", ":", " ", "B">>,
     <<"a", "n", "s", "w", "e", "r", ":", " ", "b">>,
     <<"A", "N", "S", "W", "E", "R", ":", " ", "B">>,
     <<"a", "n", "s", "w", "e", "r", ":", " ", "B">>}

ParserInputs ==
    [fn : {"_parse_ai_generated_question", "_generate_ai_question"},
     stem : ParserStems, noptions : 0..MaxOptions, sep : Separators,
     gap : Whitespace, answer : AnswerLines, explain : BackendOutcomes]

RECURSIVE RenderOptions(_, _)
\* the first n lettered options, each after a gap: " A) one B) two"
RenderOptions(a, n) ==
    IF n = 0 THEN <<>>
    ELSE RenderOptions(a, n - 1) \o <<a.gap, chr65[n], a.sep, " ">> \o OptionTexts[n]

\* the raw text of input a
Render(a) ==
    a.stem \o RenderOptions(a, a.noptions)
           \o (IF a.answer = <<>> THEN <<>> ELSE <<a.gap>> \o a.answer)

InitParser == FnInit(ParserInputs)

ParseAiGeneratedQuestion ==
    /\ arg.fn = "_parse_ai_generated_question"
    /\ FnReturn(parse_ai_generated_question(Render(arg), arg.explain))

ParserRequest ==
    [topic |-> <<"Python">>, level |-> "beginner", num_questions |-> 1, core_type |-> None]

\* _generate_ai_question for index 0 when the backend returns the text of arg
GenerateAiQuestion ==
    /\ arg.fn = "_generate_ai_question"
    /\ FnReturn(generate_ai_question(ParserRequest, "baseline", <<<<"lists">>>>, 0,
                                     BackendReturns(Render(arg)), arg.explain, rng))

NextParser == ParseAiGeneratedQuestion \/ GenerateAiQuestion

SpecParser == InitParser /\ [][NextParser]_vars

\* C8: for text made of a non-empty stem followed by at least 2 lettered options,
\* _parse_ai_generated_question returns a record carrying that stem and those options,
\* and _generate_ai_question returns that record instead of a template-path question.
C8_WellFormedTextIsParsed ==
    (ret.done /\ arg.noptions >= 2 /\ arg.answer = <<>> /\ ~arg.explain.raises) =>
        IF arg.fn = "_parse_ai_generated_question"
        THEN /\ ret.value.parsed
             /\ ret.value.question = arg.stem
             /\ ret.value.options.keys = SubSeq(chr65, 1, arg.noptions)
             /\ \A n \in 1..arg.noptions : ret.value.options.val[chr65[n]] = OptionTexts[n]
        ELSE ret.value.path = "ai"

\* C11: _parse_ai_generated_question lets no exception escape, whatever the text and
\* whatever the explanation call does; a text without lettered option marker, or with
\* fewer than 2 lettered options, gives None.
C11_ParserNeverRaises ==
    (ret.done /\ arg.fn = "_parse_ai_generated_question") =>
        /\ ~IsRaised(ret.value)
        /\ arg.noptions < 2 => ret.value = Unparsable

\* a text from which one lettered option is recovered
C11_Witness ==
    /\ ret.done
    /\ arg.fn = "_parse_ai_generated_question"
    /\ arg.noptions = 1
    /\ Len(FindAllOptions(Render(arg), 1)) = 1
    /\ ret.value = Unparsable

\* C10: for text with a stem, lettered options and the phrase "Answer: B" in any letter
\* case, _parse_ai_generated_question returns a record whose correct label is "B".
C10_AnswerLineRecoversB ==
    (ret.done /\ arg.fn = "_parse_ai_generated_question" /\ arg.noptions >= 2
        /\ arg.answer # <<>> /\ ~arg.explain.raises) =>
        /\ ret.value.parsed
        /\ ret.value.correct = "B"

-----------------------------------------------------------------------------
(* TemplateQuestionGenerator (template_generator.py): the options and the     *)
(* correct label of _generate_single_question.  An option text is one word.   *)
(* The stem and the explanation of the question are left out.                 *)

\* _generate_correct_option; pick is the outcome of its random.choice
template_generate_correct_option(topic, level, pick) ==
    LET topic_upper == upper(TextOf(topic))
    IN  IF topic_upper = Chars("AWS")
        THEN choice(<<<<"Provides scalable virtual servers in the cloud">>,
                      <<"Offers object storage with high durability">>,
                      <<"Enables serverless computing without provisioning servers">>,
                      <<"Manages relational databases with automated backups">>>>, pick)
        ELSE IF topic_upper = Chars("PYTHON")
        THEN choice(<<<<"A built-in function that performs the specified operation">>,
                      <<"A data structure that stores multiple values in an ordered sequence">>,
                      <<"A keyword that defines a reusable block of code">>,
                      <<"A method that processes each item in an iterable">>>>, pick)
        ELSE IF topic_upper = Chars("DOCKER")
        THEN choice(<<<<"A lightweight, standalone executable package that includes everything needed to run the application">>,
                      <<"A text file that contains instructions for building a Docker image">>,
                      <<"A storage mechanism that persists data generated by Docker containers">>,
                      <<"A virtual network that allows containers to communicate with each other">>>>,
                    pick)
        ELSE <<"The correct approach for">> \o lower(TextOf(topic)) \o <<"at", level, "level">>

\* the incorrect_pool of _generate_incorrect_options
template_incorrect_pool(topic) ==
    LET topic_upper == upper(TextOf(topic))
    IN  IF topic_upper = Chars("AWS")
        THEN <<<<"Manages user authentication and authorization">>,
               <<"Provides content delivery network services">>,
               <<"Monitors application performance and logs">>,
               <<"Automates resource deployment and management">>>>
        ELSE IF topic_upper = Chars("PYTHON")
        THEN <<<<"Compiles Python code to machine language">>,
               <<"Manages memory allocation and garbage collection">>,
               <<"Provides syntax highlighting and code completion">>,
               <<"Handles network communication between services">>>>
        ELSE IF topic_upper = Chars("DOCKER")
        THEN <<<<"Replaces virtual machines completely">>,
               <<"Eliminates the need for operating systems">>,
               <<"Provides automatic code compilation">>,
               <<"Manages database transactions and queries">>>>
        ELSE <<<<"An outdated approach that is no longer recommended">>,
               <<"A complex solution that requires extensive configuration">>,
               <<"A temporary workaround with limited functionality">>,
               <<"An experimental feature with no production support">>>>

RECURSIVE TakeDifferent(_, _, _)
\* for option in incorrect_pool: if option != correct_text and len(...) < 3: append
TakeDifferent(pool, correct_text, acc) ==
    IF pool = <<>> THEN acc
    ELSE TakeDifferent(Tail(pool), correct_text,
                       IF Head(pool) # correct_text /\ Len(acc) < 3
                       THEN Append(acc, Head(pool)) ELSE acc)

RECURSIVE PadIncorrect(_, _)
\* while len(incorrect_options) < 3: append(f"An incorrect option about {topic.lower()}")
PadIncorrect(acc, topic) ==
    IF Len(acc) >= 3 THEN acc
    ELSE PadIncorrect(Append(acc, <<"An incorrect option about">> \o lower(TextOf(topic))),
                      topic)

template_generate_incorrect_options(topic, level, correct_text) ==
    SubSeq(PadIncorrect(TakeDifferent(template_incorrect_pool(topic), correct_text, <<>>),
                        topic), 1, 3)

\* _generate_options; seed is the outcome of its random.shuffle
template_generate_options(topic, level, pick, seed) ==
    LET correct_text == template_generate_correct_option(topic, level, pick)
        incorrect_texts == template_generate_incorrect_options(topic, level, correct_text)
        all_options == shuffle(<<correct_text>> \o incorrect_texts, seed)
    IN  LabelOptions(all_options, IF Len(all_options) < 4 THEN Len(all_options) ELSE 4)

\* TemplateQuestionGenerator._determine_core_type
template_determine_core_type(level, index) ==
    IF level = "beginner" THEN (IF index < 7 THEN "baseline" ELSE "variable")
    ELSE IF level = "intermediate" THEN (IF index < 5 THEN "baseline" ELSE "variable")
    ELSE (IF index < 3 THEN "baseline" ELSE "variable")

\* _generate_single_question; label is the outcome of random.choice(list(options.keys()))
template_generate_single_question(req, index, counter, pick, seed, label) ==
    LET options == template_generate_options(req.topic, req.level, pick, seed)
        correct_option == choice(options.keys, label)
    IN  [id |-> IdOf(counter + index),
         core_type |-> IF req.core_type # None /\ req.core_type # ""
                       THEN req.core_type
                       ELSE template_determine_core_type(req.level, index),
         level |-> req.level,
         topic |-> req.topic,
         options |-> options,
         correct |-> correct_option]

TemplateTopics == {<<"AWS">>, <<"Python">>, <<"Docker">>, <<"Rust">>}

TemplateInputs ==
    [topic : TemplateTopics, level : Levels, pick : 0..3, seed : ShuffleOutcomes,
     label : 0..3]

InitTemplate == FnInit(TemplateInputs)

TemplateGenerateSingleQuestion ==
    FnReturn(template_generate_single_question(
                 [topic |-> arg.topic, level |-> arg.level, num_questions |-> 1,
                  core_type |-> None],
                 0, 1000, arg.pick, arg.seed, arg.label))

SpecTemplate == InitTemplate /\ [][TemplateGenerateSingleQuestion]_vars

\* C4: every question of TemplateQuestionGenerator names, in its correct field, the label
\* whose option text is the one _generate_correct_option produced.
C4_TemplateCorrectLabelNamesCorrectOption ==
    ret.done =>
        ret.value.options.val[ret.value.correct]
            = template_generate_correct_option(arg.topic, arg.level, arg.pick)

-----------------------------------------------------------------------------
(* app.py: the FastAPI service.  A response is its status code and its JSON   *)
(* body; time values (uptime, generation time) are left out of the bodies.    *)

\* lines 316-321: the response the exception handler makes of HTTPException
HTTPException(status_code, detail) ==
    [status |-> status_code, body |-> [error |-> detail, status_code |-> status_code]]

\* a handler returns body
Ok(body) == [status |-> 200, body |-> body]

\* Python truth of an Optional[str]
Truthy(v) == v # None /\ v # ""

\* what a handler leaves behind: its response, the number of calls it made into the
\* generator and what the call returned or raised, the generator's tables and random
\* state afterwards
Untouched(response, universal, generators, r) ==
    [response |-> response, invoked |-> 0, outcome |-> NoOutcome, universal |-> universal,
     generators |-> generators, rng |-> r]

\* root, lines 118-125
root == Ok([message |-> "AI Question Generator API", version |-> "2.0.0",
            status |-> "running"])

\* health_check, lines 128-137
health_check(ready) ==
    Ok([status |-> IF ready THEN "healthy" ELSE "initializing", generator_ready |-> ready,
        version |-> "2.0.0"])

\* get_available_topics without the test of line 143
get_available_topics_unguarded(ready) ==
    Ok([topics |-> <<"Any topic supported - AI generates concepts dynamically">>,
        levels |-> <<"beginner", "intermediate", "advanced">>])

\* get_available_topics, lines 140-152
get_available_topics(ready) ==
    IF ~ready THEN HTTPException(503, "Question generator not ready")
    ELSE Ok([topics |-> <<"Any topic supported - AI generates concepts dynamically">>,
             levels |-> <<"beginner", "intermediate", "advanced">>])

\* get_generation_stats, lines 242-258
get_generation_stats(ready, loaded) ==
    IF ~ready THEN HTTPException(503, "Question generator not ready")
    ELSE Ok([generator_ready |-> ready,
             available_topics |-> <<"Any topic supported - AI generates concepts dynamically">>,
             supported_levels |-> <<"beginner", "intermediate", "advanced">>,
             max_questions_per_request |-> 50,
             generator_type |-> "AI-powered with fallback templates",
             models_loaded |-> loaded])

\* lines 215-217: the handler of generate_questions catches e and raises the 500
caught_generating_questions(e) ==
    HTTPException(500, <<"Error generating questions: ", e>>)

\* lines 193-204
QuestionResponse(q) ==
    [id |-> q.id, core_type |-> q.core_type, level |-> q.level, topic |-> q.topic,
     question |-> q.question, options |-> q.options, correct |-> q.correct,
     explanation |-> q.explanation]

\* line 210: questions[0].__dict__.get('generated_at', '') if questions else ''
generated_at_of(qs) ==
    IF qs = <<>> THEN ""
    ELSE IF "generated_at" \in DOMAIN qs[1] THEN qs[1].generated_at
    ELSE ""

\* lines 187-217 once question_generator.generate_questions has returned or raised g
questions_response(req, g) ==
    [response |-> IF g.kind = "raised" THEN caught_generating_questions(g.body)
                  ELSE Ok([topic |-> req.topic, level |-> req.level,
                           total_questions |-> Len(g.body),
                           generated_at |-> generated_at_of(g.body),
                           questions |-> [i \in DOMAIN g.body |-> QuestionResponse(g.body[i])]]),
     invoked |-> 1,
     outcome |-> [kind |-> g.kind, entry |-> "generate_questions", body |-> g.body],
     universal |-> g.universal, generators |-> g.generators, rng |-> g.rng]

\* the handler of POST /generate-questions, lines 155-217, for the instance described by
\* at, universal, generators, loaded, counter in random state r
app_generate_questions(ready, req, at, universal, generators, loaded, counter, r) ==
    IF ~ready
    THEN Untouched(HTTPException(503, "Question generator not ready"), universal,
                   generators, r)
    ELSE IF req.level \notin Levels
    THEN Untouched(caught_generating_questions(
                       "400: Level must be one of: beginner, intermediate, advanced"),
                   universal, generators, r)
    ELSE IF Truthy(req.core_type) /\ req.core_type \notin CoreTypes
    THEN Untouched(caught_generating_questions(
                       "400: Core type must be one of: baseline, variable"),
                   universal, generators, r)
    ELSE questions_response(req,
                            generate_questions([topic |-> req.topic,
                                                level |-> req.level,
                                                num_questions |-> req.num_questions,
                                                core_type |-> req.core_type],
                                               at, universal, generators, loaded, counter,
                                               r))

\* lines 235-239 once question_generator.generate_quiz has returned or raised g
quiz_response(g) ==
    [response |-> IF g.kind = "raised"
                  THEN HTTPException(500, <<"Error generating quiz: ", g.body>>)
                  ELSE Ok(g.body),
     invoked |-> 1,
     outcome |-> [kind |-> g.kind, entry |-> "generate_quiz", body |-> g.body],
     universal |-> g.universal, generators |-> g.generators, rng |-> g.rng]

\* the handler of POST /generate-quiz, lines 220-239; the call of lines 228-233 passes no
\* core_type
app_generate_quiz(ready, req, at, universal, generators, loaded, counter, r) ==
    IF ~ready
    THEN Untouched(HTTPException(503, "Question generator not ready"), universal,
                   generators, r)
    ELSE quiz_response(generate_quiz(req.topic, req.level, req.num_questions,
                                     None, at, universal, generators, loaded, counter, r))

\* line 273
required_fields == <<"id", "core_type", "level", "topic", "question", "options", "correct",
                     "explanation">>

\* an entry of the issues list: the message, and the value its f-string inserts
Issue(msg, detail) == [msg |-> msg, detail |-> detail]

\* isinstance(options, dict): a JSON object is a record of keys and val, a JSON array a
\* record holding the list
IsDict(v) == DOMAIN v = {"keys", "val"}

\* question.get(field): None when the question has no such field
Get(question, field) == IF field \in DOMAIN question THEN question[field] ELSE None

RECURSIVE MissingFields(_, _)
\* lines 274-276 for the fields i .. 8
MissingFields(question, i) ==
    IF i > Len(required_fields) THEN <<>>
    ELSE (IF required_fields[i] \in DOMAIN question THEN <<>>
          ELSE <<Issue("Missing required field: {field}", required_fields[i])>>)
         \o MissingFields(question, i + 1)

\* lines 280-289 for the options and the correct label of a question
options_issues(options, correct) ==
    IF ~IsDict(options) THEN <<Issue("Options must be a dictionary", "")>>
    ELSE IF Len(options.keys) # 4 THEN <<Issue("Must have exactly 4 options", "")>>
    ELSE IF Truthy(correct) /\ correct \notin Range(options.keys)
    THEN <<Issue("Correct answer '{correct}' not found in options", correct)>>
    ELSE <<>>

\* lines 270-299: the issues of one question
issues_of(question) ==
    MissingFields(question, 1)
    \o (IF "options" \in DOMAIN question
        THEN options_issues(question.options, Get(question, "correct"))
        ELSE <<>>)
    \o (IF "core_type" \in DOMAIN question /\ question.core_type \notin CoreTypes
        THEN <<Issue("Core type must be 'baseline' or 'variable'", "")>>
        ELSE <<>>)
    \o (IF "level" \in DOMAIN question /\ question.level \notin Levels
        THEN <<Issue("Level must be 'beginner', 'intermediate', or 'advanced'", "")>>
        ELSE <<>>)

\* lines 301-306 for question i (counted from 0) whose issues are `issues`
validation_result(question, i, issues) ==
    [question_index |-> i,
     question_id |-> IF "id" \in DOMAIN question THEN question.id ELSE <<"question_", i>>,
     is_valid |-> Len(issues) = 0,
     issues |-> issues]

\* lines 267-306
validation_results(submitted) ==
    [i \in DOMAIN submitted |->
        validation_result(submitted[i], i - 1, issues_of(submitted[i]))]

\* lines 308-312 for the results rs
validation_summary(rs) ==
    Ok([total_questions |-> Len(rs),
        valid_questions |-> Cardinality({i \in DOMAIN rs : rs[i].is_valid}),
        validation_results |-> rs])

\* the handler of POST /validate-questions, lines 261-312
validate_questions(ready, submitted) ==
    IF ~ready THEN HTTPException(503, "Question generator not ready")
    ELSE validation_summary(validation_results(submitted))

-----------------------------------------------------------------------------
(* SpecApp: the service from import to the requests it answers.  A handler    *)
(* runs from the request to its response; the response waits in ret until it *)
(* is sent.                                                                   *)

MaxAppCalls == 1       \* requests that reach the generator in one run of SpecApp

\* bodies of POST /generate-questions and POST /generate-quiz that pass the pydantic
\* model of lines 69-75 (level and core_type are free strings there)
GenerationBodies ==
    [topic : Topics, level : Levels \cup {"expert"}, num_questions : 1..MaxQuestions,
     core_type : {None, "baseline", "variable", "mixed"}]

FourOptions ==
    [keys |-> <<"A", "B", "C", "D">>,
     val |-> [k \in AD |-> CASE k = "A" -> "Virtual server" [] k = "B" -> "Storage service"
                              [] k = "C" -> "Database" [] OTHER -> "Network"]]

TwoOptions ==
    [keys |-> <<"A", "B">>,
     val |-> [k \in {"A", "B"} |-> IF k = "A" THEN "Virtual server" ELSE "Storage service"]]

ListOptions == [list |-> <<"Virtual server", "Storage service">>]

\* the first question of test_api.py, lines 113-126
TestQuestion ==
    [id |-> "TEST_001", core_type |-> "baseline", level |-> "beginner", topic |-> "AWS",
     question |-> "What is EC2?", options |-> FourOptions, correct |-> "A",
     explanation |-> "EC2 provides virtual servers"]

Restrict(f, S) == [x \in S |-> f[x]]

\* questions submitted for validation: the test's first question with other options,
\* correct label and core_type, whole or without its correct field
SubmittedQuestions ==
    {Restrict([TestQuestion EXCEPT !.options = o, !.correct = c, !.core_type = t],
              DOMAIN TestQuestion \ m) :
         o \in {FourOptions, TwoOptions, ListOptions}, c \in {"A", "C", ""},
         t \in {"baseline", "invalid_type"}, m \in {{}, {"correct"}}}

ValidationBodies ==
    {<<q>> : q \in SubmittedQuestions} \cup {<<TestQuestion, q>> : q \in SubmittedQuestions}

appfixed == <<TRANSFORMERS_AVAILABLE, attrs, models_loaded, ssl_i, question_id_counter,
              request, concepts, concepts_alias, questions, issued>>

\* lifespan, lines 29-44: AIQuestionGenerator() returns, with the models loaded or in
\* fallback mode, or raises (lines 40-42)
Lifespan ==
    /\ pc = "new"
    /\ pc' = "serving"
    /\ \E result \in {"raised", "fallback"}
                     \cup (IF TRANSFORMERS_AVAILABLE THEN {"loaded"} ELSE {}) :
          CASE result = "raised" ->
                   /\ generator_ready' = FALSE
                   /\ UNCHANGED <<attrs, models_loaded, ssl_i, question_id_counter,
                                  universal_concepts, topic_concept_generators>>
            [] result = "loaded" ->
                   /\ generator_ready' = TRUE
                   /\ question_id_counter' = 1000
                   /\ models_loaded' = TRUE
                   /\ ssl_i' \in 0..2
                   /\ attrs' = {"question_id_counter", "device", "question_generator",
                                "concept_generator", "models_loaded", "core_distribution"}
                   /\ UNCHANGED <<universal_concepts, topic_concept_generators>>
            [] result = "fallback" ->
                   /\ generator_ready' = TRUE
                   /\ question_id_counter' = 1000
                   /\ models_loaded' = FALSE
                   /\ ssl_i' = IF TRANSFORMERS_AVAILABLE THEN 2 ELSE 0
                   /\ attrs' = {"question_id_counter", "device", "models_loaded",
                                "core_distribution"} \cup FallbackAttrs
                   /\ universal_concepts' = InitialUniversalConcepts
                   /\ topic_concept_generators' = InitialTopicConceptGenerators
    /\ UNCHANGED <<TRANSFORMERS_AVAILABLE, request, concepts, concepts_alias, questions,
                   outcome, issued, calls, rng, arg, ret>>

\* a handler that leaves the generator alone answers http with response
Answer(http, response) ==
    /\ pc = "serving"
    /\ ~ret.done
    /\ arg' = http
    /\ ret' = [done |-> TRUE, value |-> response]
    /\ UNCHANGED <<appfixed, pc, outcome, universal_concepts, topic_concept_generators, calls, rng,
                   generator_ready>>

\* a handler that may call the generator answers http with what h holds
AnswerWith(http, h) ==
    /\ pc = "serving"
    /\ ~ret.done
    /\ calls < MaxAppCalls
    /\ arg' = http
    /\ ret' = [done |-> TRUE, value |-> h.response]
    /\ calls' = calls + h.invoked
    /\ outcome' = h.outcome
    /\ universal_concepts' = h.universal
    /\ topic_concept_generators' = h.generators
    /\ rng' = h.rng
    /\ UNCHANGED <<appfixed, pc, generator_ready>>

GetRoot == Answer([endpoint |-> "/"], root)

GetHealth == Answer([endpoint |-> "/health"], health_check(generator_ready))

GetTopics == Answer([endpoint |-> "/topics"], get_available_topics(generator_ready))

GetStats ==
    Answer([endpoint |-> "/stats"], get_generation_stats(generator_ready, models_loaded))

PostGenerateQuestions(body) ==
    AnswerWith([endpoint |-> "/generate-questions", body |-> body],
               app_generate_questions(generator_ready, body, attrs, universal_concepts,
                                      topic_concept_generators, models_loaded,
                                      question_id_counter, rng))

PostGenerateQuiz(body) ==
    AnswerWith([endpoint |-> "/generate-quiz", body |-> body],
               app_generate_quiz(generator_ready, body, attrs, universal_concepts,
                                 topic_concept_generators, models_loaded,
                                 question_id_counter, rng))

PostValidateQuestions(body) ==
    Answer([endpoint |-> "/validate-questions", body |-> body],
           validate_questions(generator_ready, body))

\* the response is sent; the next request can be handled
Respond ==
    /\ pc = "serving"
    /\ ret.done
    /\ arg' = None
    /\ ret' = [done |-> FALSE, value |-> None]
    /\ outcome' = NoOutcome
    /\ UNCHANGED <<appfixed, pc, universal_concepts, topic_concept_generators, calls, rng,
                   generator_ready>>

NextApp ==
    \/ Lifespan
    \/ GetRoot
    \/ GetHealth
    \/ GetTopics
    \/ GetStats
    \/ \E body \in GenerationBodies : PostGenerateQuestions(body)
    \/ \E body \in GenerationBodies : PostGenerateQuiz(body)
    \/ \E body \in ValidationBodies : PostValidateQuestions(body)
    \/ Respond

SpecApp == Init /\ [][NextApp]_vars

\* a body of POST /generate-questions that lines 165-175 reject
Rejected(body) ==
    \/ body.level \notin Levels
    \/ Truthy(body.core_type) /\ body.core_type \notin CoreTypes

\* C13: with the generator ready, POST /generate-questions with a level outside
\* {beginner, intermediate, advanced}, or a non-empty core_type outside {baseline,
\* variable}, is answered with status 400 and without a call into the generator.
C13_BadLevelOrCoreTypeAnswers400 ==
    (ret.done /\ generator_ready /\ arg.endpoint = "/generate-questions"
        /\ Rejected(arg.body)) =>
        /\ ret.value.status = 400
        /\ outcome.kind = "none"

\* C14: while generator_ready is false, POST /generate-questions, POST /generate-quiz,
\* POST /validate-questions, GET /topics and GET /stats are answered with status 503 and
\* leave the generator alone; GET /health is answered 200 with status 'initializing'.
C14_NotReadyAnswers503 ==
    (ret.done /\ ~generator_ready) =>
        /\ arg.endpoint \in {"/generate-questions", "/generate-quiz",
                              "/validate-questions", "/topics", "/stats"}
               => /\ ret.value.status = 503
                  /\ outcome.kind = "none"
                  /\ calls = 0
        /\ arg.endpoint = "/health"
               => /\ ret.value.status = 200
                  /\ ret.value.body.status = "initializing"

\* the constructor raised in lifespan, and a quiz is asked for
C14_Witness ==
    /\ pc = "serving"
    /\ ~generator_ready
    /\ ret.done
    /\ arg.endpoint = "/generate-quiz"
    /\ ret.value.status = 503
    /\ calls = 0

\* C15: POST /validate-questions flags every submitted question whose correct label is
\* not a key of its options with the issue naming that label, whatever the number of
\* entries of options.
C15_AbsentCorrectLabelIsFlagged ==
    (ret.done /\ arg.endpoint = "/validate-questions" /\ ret.value.status = 200) =>
        \A i \in DOMAIN arg.body :
            LET q == arg.body[i]
                issues == ret.value.body.validation_results[i].issues
            IN  ("options" \in DOMAIN q /\ IsDict(q.options) /\ "correct" \in DOMAIN q
                    /\ q.correct \notin Range(q.options.keys))
                => \E k \in DOMAIN issues :
                       issues[k] = Issue("Correct answer '{correct}' not found in options",
                                         q.correct)

\* C16: for a body with core_type baseline or variable, every question POST
\* /generate-quiz returns has that core_type, as POST /generate-questions returns.
C16_QuizEndpointHonoursCoreType ==
    (ret.done /\ arg.endpoint = "/generate-quiz" /\ ret.value.status = 200
        /\ arg.body.core_type \in CoreTypes) =>
        \A i \in DOMAIN ret.value.body.questions :
            ret.value.body.questions[i].core_type = arg.body.core_type

\* C20: every 200 response of POST /generate-questions carries a generated_at that is a
\* non-empty time value.
C20_GeneratedAtIsATimestamp ==
    (ret.done /\ arg.endpoint = "/generate-questions" /\ ret.value.status = 200) =>
        /\ "generated_at" \in DOMAIN ret.value.body
        /\ ret.value.body.generated_at # ""

-----------------------------------------------------------------------------
(* SpecServe: two POST /generate-questions requests are in flight against the *)
(* one question_generator of the process.  The handler (lines 155-217) is a   *)
(* coroutine without an await, so the event loop runs it from its first line  *)
(* to its return before it starts another one; the loop picks the pending     *)
(* requests in any order.                                                     *)

MaxServed == 13        \* the largest num_questions of a request in flight

InFlight == 1..2

ServeBodies ==
    [topic : Topics, level : Levels, num_questions : {1, MaxQuestions, MaxServed},
     core_type : {None}]

\* the server after lifespan (lines 29-44) with the instance ready, loaded or in fallback
InitServe ==
    /\ pc = "serving"
    /\ TRANSFORMERS_AVAILABLE = TRUE
    /\ models_loaded \in BOOLEAN
    /\ attrs = IF models_loaded
               THEN {"question_id_counter", "device", "question_generator",
                     "concept_generator", "models_loaded", "core_distribution"}
               ELSE {"question_id_counter", "device", "models_loaded", "core_distribution"}
                    \cup FallbackAttrs
    /\ ssl_i = IF models_loaded THEN 0 ELSE 2
    /\ question_id_counter = 1000
    /\ universal_concepts = IF models_loaded THEN <<>> ELSE InitialUniversalConcepts
    /\ topic_concept_generators = IF models_loaded THEN <<>>
                                  ELSE InitialTopicConceptGenerators
    /\ request = NoRequest
    /\ concepts = <<>>
    /\ concepts_alias = None
    /\ questions = <<>>
    /\ outcome = NoOutcome
    /\ issued = {}
    /\ calls = 0
    /\ arg \in [bodies : [InFlight -> ServeBodies], seed : Seeds]
    /\ rng = arg.seed
    /\ ret = [done |-> FALSE, value |-> <<>>]
    /\ generator_ready = TRUE

\* the requests whose handler has run
Served == {ret.value[s].k : s \in DOMAIN ret.value}

\* the event loop runs the handler of the pending request k to its return
Serve(k) ==
    /\ pc = "serving"
    /\ k \notin Served
    /\ \E h \in {app_generate_questions(generator_ready, arg.bodies[k], attrs,
                                         universal_concepts, topic_concept_generators,
                                         models_loaded, question_id_counter, rng)} :
          /\ ret' = [done |-> Len(ret.value) + 1 = Cardinality(InFlight),
                     value |-> Append(ret.value, [k |-> k, response |-> h.response])]
          /\ calls' = calls + h.invoked
          /\ outcome' = h.outcome
          /\ universal_concepts' = h.universal
          /\ topic_concept_generators' = h.generators
          /\ rng' = h.rng
    /\ UNCHANGED <<appfixed, pc, arg, generator_ready>>

NextServe == \E k \in InFlight : Serve(k)

SpecServe == InitServe /\ [][NextServe]_vars

\* the question text the template path gives the concept c
TextOfConcept(c, topic) ==
    <<"What", "is", "the", "most", "accurate", "description", "of">>
    \o c \o <<"in">> \o topic \o <<"?">>

\* the list a fresh instance draws the batch of body from, before the shuffle
ListOfBody(body) ==
    LET stored == Deref(get_concepts_ref(body.topic, body.level),
                        InitialUniversalConcepts, InitialTopicConceptGenerators)
    IN  IF Len(stored) < body.num_questions
        THEN stored \o InitialUniversalConcepts[body.level]
        ELSE stored

\* the questions qs are those of indices 0 .. n-1 over one permutation of list: ids follow
\* the index from 1000, no concept is used more often than list holds it before the list
\* wraps, and index i repeats the concept of index i - len(list)
IsSerialBatch(qs, body, list) ==
    /\ Len(qs) = body.num_questions
    /\ \A i \in DOMAIN qs :
           /\ qs[i].id = <<"AI_GEN_", 1000 + (i - 1)>>
           /\ \E c \in Range(list) : qs[i].question = TextOfConcept(c, body.topic)
           /\ i > Len(list) => qs[i].question = qs[i - Len(list)].question
    /\ \A c \in Range(list) :
           Cardinality({i \in DOMAIN qs : /\ i <= Len(list)
                                          /\ qs[i].question = TextOfConcept(c, body.topic)})
               <= Occurrences(list, c)

\* the response to the request served second when the requests are served one after the
\* other, first being the handler's result for the request served first
SecondOfSerial(first, body) ==
    app_generate_questions(TRUE, body, attrs, first.universal, first.generators,
                           models_loaded, 1000, first.rng).response

\* C23: when several generation requests are served against the one shared generator, in
\* any order the server runs their handlers, each response is a batch a serial execution
\* of the same requests produces: the ids of each batch count from the counter by index,
\* and the concept at index i is element i mod len of one permutation of the list.
C23_ConcurrentRequestsAreSerializable ==
    /\ \A s \in DOMAIN ret.value :
           ret.value[s].response.status = 200 =>
               IsSerialBatch(ret.value[s].response.body.questions, arg.bodies[ret.value[s].k],
                             ListOfBody(arg.bodies[ret.value[s].k]))
    /\ ret.done =>
           \E first \in {app_generate_questions(
                              TRUE, arg.bodies[ret.value[1].k], attrs,
                              IF models_loaded THEN <<>> ELSE InitialUniversalConcepts,
                              IF models_loaded THEN <<>> ELSE InitialTopicConceptGenerators,
                              models_loaded, 1000, arg.seed)} :
               /\ ret.value[1].response = first.response
               /\ ret.value[2].response = SecondOfSerial(first, arg.bodies[ret.value[2].k])

\* the request that arrived second was served first; both asked for the same list, the
\* longer batch wrapped around it
C23_Witness ==
    /\ ret.done
    /\ ret.value[1].k = 2
    /\ ret.value[1].response.status = 200
    /\ ret.value[2].response.status = 200
    /\ arg.bodies[1] = [topic |-> <<"Python">>, level |-> "advanced",
                        num_questions |-> MaxServed, core_type |-> None]
    /\ arg.bodies[2] = [topic |-> <<"Python">>, level |-> "advanced",
                        num_questions |-> MaxQuestions, core_type |-> None]
    /\ ret.value[2].response.body.questions[MaxServed].question
         = ret.value[2].response.body.questions[MaxServed - 12].question
    /\ ret.value[2].response.body.questions[1].question
         # ret.value[1].response.body.questions[1].question

-----------------------------------------------------------------------------
(* Properties of Spec *)

\* C2: every question returned by generate_questions, on whichever path it was produced,
\* has an options mapping with exactly the 4 keys A, B, C, D and a correct field that is
\* one of those keys.
C2_FourOptionsAndCorrectAmongThem ==
    \A q \in Range(questions) \cup Range(ReturnedQuestions) :
        /\ Len(q.options.keys) = 4
        /\ Range(q.options.keys) = AD
        /\ DOMAIN q.options.val = AD
        /\ q.correct \in Range(q.options.keys)

\* a returned batch of MaxQuestions questions whose correct labels differ
C2_Witness ==
    /\ pc = "returned"
    /\ outcome.entry = "generate_questions"
    /\ Len(ReturnedQuestions) = MaxQuestions
    /\ ReturnedQuestions[1].correct # ReturnedQuestions[2].correct

\* C12: the question text of every template-path question is one of the 5 stem templates
\* of the question's category with {concept} and {topic} replaced by the question's
\* concept and the request's topic.
C12_TemplateQuestionTextIsAStem ==
    (pc = "generating" /\ models_loaded = FALSE) =>
        \A i \in DOMAIN questions :
            questions[i].question \in
                {Format(question_templates[questions[i].core_type][t],
                        concepts[((i - 1) % Len(concepts)) + 1], request.topic) :
                     t \in 1..5}

\* C19: every call of generate_questions either raises or returns exactly
\* request.num_questions questions, in index order 0 .. num_questions - 1, in either
\* readiness state; a call that raised returned no list.
C19_WholeBatchOrException ==
    /\ pc = "returned" =>
           /\ outcome.kind = "returned"
           /\ Len(ReturnedQuestions) = request.num_questions
           /\ \A i \in DOMAIN ReturnedQuestions :
                  ReturnedQuestions[i].id = question_id(question_id_counter, i - 1)
    /\ pc = "raised" => (outcome.kind = "raised" /\ ReturnedQuestions = <<>>)

\* a direct call for MaxQuestions questions has returned them all
C19_Witness ==
    /\ pc = "returned"
    /\ outcome.entry = "generate_questions"
    /\ request.num_questions = MaxQuestions
    /\ Len(outcome.body) = MaxQuestions
    /\ outcome.body[MaxQuestions].id = question_id(question_id_counter, MaxQuestions - 1)

\* C22: models_loaded is set during construction and never changes afterwards: no step
\* of a generate_questions / generate_quiz call, returning or raising, writes it or
\* attempts another load of the backend.
C22_ModelsLoadedFixedAfterConstruction ==
    [][pc \notin {"new", "loading"}
         => /\ models_loaded' = models_loaded
            /\ ssl_i' = ssl_i
            /\ pc' # "loading"
            /\ ("question_generator" \in attrs') = ("question_generator" \in attrs)]_vars

\* an instance that fell back after three failed loads has served MaxCalls calls
C22_Witness ==
    /\ pc = "idle"
    /\ calls = MaxCalls
    /\ TRANSFORMERS_AVAILABLE
    /\ models_loaded = FALSE
    /\ ssl_i = 2

\* C5: over any sequence of generate_questions / generate_quiz calls on one instance no
\* two returned questions have the same id, and every id of a later batch is greater than
\* every id of an earlier batch.
C5_IdsNeverRepeatAcrossBatches ==
    pc = "returned" =>
        /\ \A i, j \in DOMAIN ReturnedQuestions :
               i # j => ReturnedQuestions[i].id # ReturnedQuestions[j].id
        /\ \A new \in IdsOf(ReturnedQuestions) : \A old \in issued :
               old[2] < new[2]

\* C7: when the backend is ready and the backend call or the parser fails for a question,
\* the batch is not aborted: generate_questions returns num_questions questions.
C7_ReadyInstanceReturnsFullBatch ==
    ("models_loaded" \in attrs /\ models_loaded = TRUE /\ pc \in {"returned", "raised"}) =>
        /\ outcome.kind = "returned"
        /\ Len(ReturnedQuestions) = request.num_questions

\* C27: with transformers importable the constructor attempts the loading methods in the
\* order 1, 2, 3, the next one only after the previous one raised; the first success sets
\* models_loaded to true and ends the sequence; when all three raised models_loaded is
\* false and the fallback tables are initialized; the constructor always returns.
C27_LoadingMethodsTriedInOrder ==
    [][/\ pc = "new" =>
            /\ pc' = (IF TRANSFORMERS_AVAILABLE THEN "loading" ELSE "idle")
            /\ ssl_i' = 0
            /\ TRANSFORMERS_AVAILABLE => "models_loaded" \notin attrs'
       /\ (pc = "loading" /\ pc' = "loading") =>
            /\ ssl_i' = ssl_i + 1
            /\ ssl_i' <= 2
            /\ attrs' = attrs
       /\ (pc = "loading" /\ pc' # "loading") =>
            /\ pc' = "idle"
            /\ "models_loaded" \in attrs'
            /\ \/ models_loaded' = TRUE /\ ssl_i' = ssl_i
               \/ /\ models_loaded' = FALSE
                  /\ ssl_i = 2
                  /\ FallbackAttrs \subseteq attrs'
                  /\ universal_concepts' = InitialUniversalConcepts
                  /\ topic_concept_generators' = InitialTopicConceptGenerators]_vars

\* the second method succeeded after the first one raised
C27_Witness ==
    /\ pc = "idle"
    /\ TRANSFORMERS_AVAILABLE
    /\ ssl_i = 1
    /\ models_loaded = TRUE
    /\ calls = 0

\* C28: once the constructor has returned, whether models_loaded is true or false, the
\* tables the template path reads (universal_concepts, topic_concept_generators,
\* question_templates) are initialized.
C28_TemplateTablesInitializedAfterConstruction ==
    pc \notin {"new", "loading"} =>
        FallbackAttrs \subseteq attrs

\* C30: within one batch the ids are pairwise distinct and follow the index (the question
\* at index i has id AI_GEN_ followed by question_id_counter + i), and question_id_counter
\* holds 1000 after any sequence of generate_questions / generate_quiz calls.
C30_IdsFollowIndexAndCounterStays1000 ==
    pc \notin {"new"} =>
        /\ question_id_counter = 1000
        /\ \A i \in DOMAIN questions : questions[i].id = <<"AI_GEN_", 1000 + (i - 1)>>
        /\ \A i \in DOMAIN ReturnedQuestions :
               ReturnedQuestions[i].id = <<"AI_GEN_", question_id_counter + (i - 1)>>
        /\ \A i, j \in DOMAIN ReturnedQuestions :
               ReturnedQuestions[i].id = ReturnedQuestions[j].id => i = j

\* the last of MaxCalls calls returned MaxQuestions questions
C30_Witness ==
    /\ pc = "returned"
    /\ calls = MaxCalls
    /\ question_id_counter = 1000
    /\ Len(ReturnedQuestions) = MaxQuestions
    /\ ReturnedQuestions[1].id = <<"AI_GEN_", 1000>>
    /\ ReturnedQuestions[MaxQuestions].id = <<"AI_GEN_", 1000 + MaxQuestions - 1>>

====
